---- MODULE Spec2Model ----
(***************************************************************************)
(* Machine-agent supervisor core: the per-model worker manager            *)
(* (envworkermanager), the per-model connection factories, and the        *)
(* login admission guard, the restore flags and upgrade gates of the     *)
(* machine agent, its upgrade-waiting workers and its Run function.       *)
(***************************************************************************)
EXTENDS Integers, Sequences, FiniteSets, TLC

\* Number of model UUIDs the model-list watcher can report.
MaxModels == 1

Models == 1..MaxModels

\* names.ModelTag.Id() of a model is its UUID; the alive-runner is registered
\* under the UUID itself.
aliveEnvWorkerId(uuid) == <<uuid>>

\* "dying" + ":" + uuid
dyingEnvWorkerId(uuid) == <<"dying", ":">> \o <<uuid>>

WorkerIds == {aliveEnvWorkerId(u) : u \in Models} \cup {dyingEnvWorkerId(u) : u \in Models}

VARIABLES
    \* ---- environment of the per-model manager ----
    life,           \* life[u]: "None" (not created), "Alive", "Dying", "Dead", "Gone"
    watchPending,   \* UUIDs changed since the last batch the watcher delivered
    watchStopped,   \* the watcher has been stopped (w.Stop())
    \* ---- envWorkerManager ----
    mgrPc,          \* "loop", "handling", "exiting", "waitRunner", "dead"
    mgrBatch,       \* the rest of the batch being handled
    seen,        \* the last envHasChanged call: uuid, what the lookup saw, its error
    mgrLoopErr,     \* the value loop() returns
    mgrDying,       \* m.tomb is dying
    mgrReason,      \* m.tomb's reason
    waiterDone,     \* the goroutine of loop() that waits for the runner has fired
    \* ---- m.runner ----
    workers,        \* workers[id]: [status, desired]
    runnerStopping, \* the runner is shutting down
    runnerDead,     \* the runner's Wait has returned
    runnerErr,      \* the runner's terminal error
    \* ---- per-model connection factories ----
    facPc,          \* facPc[k]: where the factory of kind k is
    subRunner,      \* subRunner[k]: "none", "running", "stopping", "dead"
    apiCloser,      \* apiCloser[k]: the goroutine that closes the API connection
    stCloser,       \* stCloser[k]: the goroutine that closes the State
    connLog,        \* connLog[k]: the opens and closes of kind k's connections, in order
    \* ---- MachineAgent: restore flags, upgrade gates, logins ----
    restoreMode,
    restoring,
    upgradeComplete,                    \* "open" until closed
    initialAgentUpgradeCheckComplete,   \* "open" until closed
    login,          \* the last limitLogins call: request, agent state it ran in, result
    restoreHist,    \* the restore states the agent has left, oldest first (last MaxHist)
    restoreErr,     \* the last call of PrepareRestore, BeginRestore, EndRestore: [op, err]
    \* ---- upgradeWaiterWorker: one worker started by startWorkerAfterUpgrade ----
    waiterPc,       \* "none", "waitUpgrade", "waitCheck", "start", "running", "killed", "done"
    waiterStop,     \* the stop channel: closed or not, and the gates when it was closed
    waiterErr,      \* what the wrapper's function returned
    waiterRuns,     \* how many times the runner has run the wrapper
    innerWorker,    \* the worker start() returned: "none", "running", "killed", "exited"
    innerStart,     \* the calls of start() in this run: how many, the state at the last
    \* ---- MachineAgent.Run ----
    runPc,          \* the step Run is at
    runLog,         \* what Run has done so far, in order
    runErr,         \* Run's err ("none" until it is assigned); its result once returned
    uninstallFile,  \* the uninstall-agent file exists in the data directory
    \* ---- MachineAgent.stateStarter and the agent configuration ----
    servingInfo,    \* the current config has state-serving info
    confWriting,    \* a ChangeConfig has written the config and not yet Set the value
    confVersion,    \* how many times configChangedVal has been Set
    confSeen,       \* the version confWatch.Next() last returned for
    watchChFull,    \* the forwarding goroutine is offering a value on watchCh
    starterPc,      \* "loop" or "done"
    starterStop,    \* stopch is closed
    starterErr,     \* what stateStarter returned
    starterLast,    \* the last notification handled: the config it saw, what it asked for
    rootWorkers,    \* the "state" entry of a.runner: [status, desired]
    \* ---- dependency engine ----
    manifolds,      \* the installed graph: manifolds[name] is the set of input names
    eng,            \* eng[name]: [status, behind, starts, value] of an installed manifold
    modelWorld,     \* what the flags are about: [life] of the model, [lease] held or not
    \* ---- singular gate: the lease of one key and the processes claiming it ----
    lease,          \* the lease store's record: [holder, ttl]
    held,           \* held[p]: the value process p publishes
    gatePc,         \* gatePc[p]: "waiting", "holding", "exited"
    gateAge,        \* gateAge[p]: time since p's last successful claim or renewal
    \* ---- calls that run beside other tasks of the agent ----
    loginCall,      \* a limitLogins call in progress: [pc, req, modeAll, err]
    apiWorker,      \* MachineAgent.APIWorker: [pc, conn, err, marker]
    mongoInitMutex, \* the caller that holds a.mongoInitMutex, or Unlocked
    mongoInitialized,
    mongoCall       \* mongoCall[c]: [pc, ret] of caller c's ensureMongoServer

mgrVars == <<life, watchPending, watchStopped, mgrPc, mgrBatch, seen, mgrLoopErr,
             mgrDying, mgrReason, waiterDone, workers, runnerStopping, runnerDead, runnerErr>>

connVars == <<facPc, subRunner, apiCloser, stCloser, connLog>>

agentVars == <<restoreMode, restoring, upgradeComplete, initialAgentUpgradeCheckComplete, login,
               restoreHist, restoreErr>>

waitVars == <<waiterPc, waiterStop, waiterErr, waiterRuns, innerWorker, innerStart>>

runVars == <<runPc, runLog, runErr, uninstallFile>>

startVars == <<servingInfo, confWriting, confVersion, confSeen, watchChFull, starterPc,
               starterStop, starterErr, starterLast, rootWorkers>>

engVars == <<manifolds, eng, modelWorld>>

gateVars == <<lease, held, gatePc, gateAge>>

callVars == <<loginCall, apiWorker, mongoInitMutex, mongoInitialized, mongoCall>>

\* the state-starter, the dependency engine, the singular gate and the calls
\* that run beside other tasks
infraVars == <<startVars, engVars, gateVars, callVars>>

vars == <<mgrVars, connVars, agentVars, waitVars, runVars, infraVars>>

----------------------------------------------------------------------------
\* Runner (worker.NewRunner): the named worker set of section 4.1.

Absent == [status |-> "Absent", desired |-> "stopped"]

\* importance comparator: a fatal error is more important than nil
MoreImportant(err0, err1) == err0 = "fatal" /\ err1 # "fatal"

\* Start(name, factory): unknown name -> register and start; previously
\* stopped -> desired running again under the same name; running -> no-op.
RunnerStart(ws, id) ==
    IF ws[id].status = "Absent"
    THEN [ws EXCEPT ![id] = [status |-> "Starting", desired |-> "running"]]
    ELSE IF ws[id].desired = "stopped"
         THEN [ws EXCEPT ![id].desired = "running"]
         ELSE ws

\* a second stop request removes an entry that is still terminating
StopEntry_RemovesLive(e) ==
    CASE e.status = "Running"    -> [status |-> "Terminating", desired |-> "stopped"]
      [] e.status = "Starting"   -> [e EXCEPT !.desired = "stopped"]
      [] OTHER                   -> Absent

\* request stop on one entry: mark desired=stopped, ask the handle to stop;
\* an entry whose handle has already terminated is purged.
StopEntry(e) ==
    CASE e.status = "Running"    -> [status |-> "Terminating", desired |-> "stopped"]
      [] e.status = "Terminated" -> Absent
      [] e.status = "Absent"     -> Absent
      [] OTHER                   -> [e EXCEPT !.desired = "stopped"]

\* Stop(name)
RunnerStop(ws, id) == [ws EXCEPT ![id] = StopEntry(ws[id])]

\* Kill(): stop is propagated to all children
KillAll(ws) == [id \in DOMAIN ws |-> StopEntry(ws[id])]

\* StartWorker returns an error only if the runner is itself stopping
StartWorkerErr == runnerStopping

\* StopWorker can only fail once the runner is gone
StopWorkerErr == runnerDead

----------------------------------------------------------------------------
\* envWorkerManager

Lives == {"Alive", "Dying", "Dead"}

\* m.st.GetEnvironment(modelTag): the model record, a not-found error for a
\* model that does not exist (any more), or some other error.
GetEnvironment(uuid, fails) ==
    IF fails THEN "Error"
    ELSE IF life[uuid] \in Lives THEN life[uuid] ELSE "NotFound"

\* tomb.Kill(reason): ErrDying is ignored, the first real reason is kept
TombKill(cur, reason) ==
    IF reason = "ErrDying" THEN cur
    ELSE IF cur \in {"StillAlive", "nil"} THEN reason ELSE cur

Ok(ws) == [err |-> "nil", ws |-> ws]
Failed(ws) == [err |-> "ErrDead", ws |-> ws]

\* mutant: every Alive notification registers the worker afresh
envIsAlive_Restarts(ws, uuid) ==
    IF StartWorkerErr THEN Failed(ws)
    ELSE Ok([ws EXCEPT ![aliveEnvWorkerId(uuid)] = [status |-> "Starting", desired |-> "running"]])

envIsAlive(ws, uuid) ==
    IF StartWorkerErr THEN Failed(ws)
    ELSE Ok(RunnerStart(ws, aliveEnvWorkerId(uuid)))

\* mutant: the second StopWorker call is missing
envNotFound_OnlyAlive(ws, uuid) ==
    IF StopWorkerErr THEN Failed(ws)
    ELSE Ok(RunnerStop(ws, aliveEnvWorkerId(uuid)))

\* mutant: the first StopWorker call is missing
envNotFound_OnlyDying(ws, uuid) ==
    IF StopWorkerErr THEN Failed(ws)
    ELSE Ok(RunnerStop(ws, dyingEnvWorkerId(uuid)))

envNotFound(ws, uuid) ==
    IF StopWorkerErr THEN Failed(ws)
    ELSE Ok(RunnerStop(RunnerStop(ws, aliveEnvWorkerId(uuid)), dyingEnvWorkerId(uuid)))

\* mutant: the alive-runner is stopped before the dying-runner is started
envIsDying_StopsAlive(ws, uuid) ==
    IF StartWorkerErr THEN Failed(ws)
    ELSE Ok(RunnerStart(RunnerStop(ws, aliveEnvWorkerId(uuid)), dyingEnvWorkerId(uuid)))

envIsDying(ws, uuid) ==
    IF StartWorkerErr THEN Failed(ws)
    ELSE Ok(RunnerStart(ws, dyingEnvWorkerId(uuid)))

\* mutant: the worker stopped is the dying-runner
envIsDead_WrongId(ws, uuid) ==
    IF StopWorkerErr THEN Failed(ws)
    ELSE Ok(RunnerStop(ws, dyingEnvWorkerId(uuid)))

envIsDead(ws, uuid) ==
    IF StopWorkerErr THEN Failed(ws)
    ELSE Ok(RunnerStop(ws, aliveEnvWorkerId(uuid)))

\* mutant: an error of the lookup is handled like a model that is not found
envHasChanged_LookupErrorAsNotFound(ws, uuid, env) ==
    CASE env = "NotFound" -> envNotFound(ws, uuid)
      [] env = "Error"    -> envNotFound(ws, uuid)
      [] env = "Alive"    -> envIsAlive(ws, uuid)
      [] env = "Dying"    -> envIsDying(ws, uuid)
      [] env = "Dead"     -> envIsDead(ws, uuid)

\* mutant: Dying falls into the Dead case before its own
envHasChanged_DyingAsDead(ws, uuid, env) ==
    CASE env = "NotFound" -> envNotFound(ws, uuid)
      [] env = "Error"    -> [err |-> "lookup", ws |-> ws]
      [] env = "Alive"    -> envIsAlive(ws, uuid)
      [] env = "Dying"    -> envIsDying(envIsDead(ws, uuid).ws, uuid)
      [] env = "Dead"     -> envIsDead(ws, uuid)

envHasChanged(ws, uuid, env) ==
    CASE env = "NotFound" -> envNotFound(ws, uuid)
      [] env = "Error"    -> [err |-> "lookup", ws |-> ws]
      [] env = "Alive"    -> envIsAlive(ws, uuid)
      [] env = "Dying"    -> envIsDying(ws, uuid)
      [] env = "Dead"     -> envIsDead(ws, uuid)

\* what the lookups of a model see when each step of its life is reported
Stages == <<"Alive", "Dying", "Dead", "NotFound">>

\* all orders in which a batch can list a set of UUIDs
Orders(S) == {q \in [1..Cardinality(S) -> S] : \A i, j \in 1..Cardinality(S) : i # j => q[i] # q[j]}

\* loop(): case uuids := <-w.Changes()
MgrReceive ==
    /\ mgrPc = "loop"
    /\ ~watchStopped
    /\ watchPending # {}
    /\ \E q \in Orders(watchPending) : mgrBatch' = q
    /\ watchPending' = {}
    /\ mgrPc' = "handling"
    /\ UNCHANGED <<life, watchStopped, seen, mgrLoopErr, mgrDying, mgrReason, waiterDone,
                   workers, runnerStopping, runnerDead, runnerErr,
                   connVars, agentVars, waitVars, runVars, infraVars>>

\* loop(): one round of "for _, uuid := range uuids"
MgrEnvHasChanged ==
    /\ mgrPc = "handling"
    /\ mgrBatch # <<>>
    /\ \E fails \in BOOLEAN :
         LET uuid == Head(mgrBatch)
             env  == GetEnvironment(uuid, fails)
             res  == envHasChanged(workers, uuid, env)
         IN /\ workers' = res.ws
            /\ seen' = [seen EXCEPT ![uuid] =
                           [env |-> env, err |-> res.err,
                            again |-> env = "Alive" /\ res.err = "nil" /\ res.ws = workers,
                            stage |-> IF @.stage < Len(Stages) /\ env = Stages[@.stage + 1]
                                      THEN @.stage + 1 ELSE @.stage]]
            /\ IF res.err # "nil"
               THEN /\ mgrPc' = "exiting"
                    /\ mgrLoopErr' = res.err
                    /\ mgrBatch' = <<>>
               ELSE /\ mgrBatch' = Tail(mgrBatch)
                    /\ mgrPc' = IF Tail(mgrBatch) = <<>> THEN "loop" ELSE "handling"
                    /\ UNCHANGED mgrLoopErr
    /\ UNCHANGED <<life, watchPending, watchStopped, mgrDying, mgrReason, waiterDone,
                   runnerStopping, runnerDead, runnerErr, connVars, agentVars, waitVars, runVars, infraVars>>

\* loop(): case <-m.tomb.Dying()
MgrSeeDying ==
    /\ mgrPc = "loop"
    /\ mgrDying
    /\ mgrPc' = "exiting"
    /\ mgrLoopErr' = "ErrDying"
    /\ UNCHANGED <<life, watchPending, watchStopped, mgrBatch, seen, mgrDying, mgrReason,
                   waiterDone, workers, runnerStopping, runnerDead, runnerErr,
                   connVars, agentVars, waitVars, runVars, infraVars>>

\* loop()'s deferred calls, first half: w.Stop(), m.runner.Kill()
MgrExit ==
    /\ mgrPc = "exiting"
    /\ watchStopped' = TRUE
    /\ runnerStopping' = TRUE
    /\ workers' = KillAll(workers)
    /\ mgrPc' = "waitRunner"
    /\ UNCHANGED <<life, watchPending, mgrBatch, seen, mgrLoopErr, mgrDying, mgrReason,
                   waiterDone, runnerDead, runnerErr, connVars, agentVars, waitVars, runVars, infraVars>>

\* mutant: the deferred call does not wait for the runner
MgrDone_NoWait ==
    /\ mgrPc = "waitRunner"
    /\ mgrReason' = TombKill(TombKill(mgrReason, runnerErr), mgrLoopErr)
    /\ mgrDying' = TRUE
    /\ mgrPc' = "dead"
    /\ UNCHANGED <<life, watchPending, watchStopped, mgrBatch, seen, mgrLoopErr,
                   waiterDone, workers, runnerStopping, runnerDead, runnerErr,
                   connVars, agentVars, waitVars, runVars, infraVars>>

\* second half: m.tomb.Kill(m.runner.Wait()), then m.tomb.Kill(m.loop()) and
\* m.tomb.Done() of the goroutine NewEnvWorkerManager starts
MgrDone ==
    /\ mgrPc = "waitRunner"
    /\ runnerDead
    /\ mgrReason' = TombKill(TombKill(mgrReason, runnerErr), mgrLoopErr)
    /\ mgrDying' = TRUE
    /\ mgrPc' = "dead"
    /\ UNCHANGED <<life, watchPending, watchStopped, mgrBatch, seen, mgrLoopErr,
                   waiterDone, workers, runnerStopping, runnerDead, runnerErr,
                   connVars, agentVars, waitVars, runVars, infraVars>>

\* Kill(): m.tomb.Kill(nil)
MgrKill ==
    /\ mgrPc # "dead"
    /\ ~mgrDying
    /\ mgrDying' = TRUE
    /\ mgrReason' = TombKill(mgrReason, "nil")
    /\ UNCHANGED <<life, watchPending, watchStopped, mgrPc, mgrBatch, seen, mgrLoopErr,
                   waiterDone, workers, runnerStopping, runnerDead, runnerErr,
                   connVars, agentVars, waitVars, runVars, infraVars>>

\* the goroutine of loop(): m.tomb.Kill(m.runner.Wait())
MgrRunnerWaiter ==
    /\ runnerDead
    /\ ~waiterDone
    /\ mgrPc # "dead"
    /\ waiterDone' = TRUE
    /\ mgrDying' = TRUE
    /\ mgrReason' = TombKill(mgrReason, runnerErr)
    /\ UNCHANGED <<life, watchPending, watchStopped, mgrPc, mgrBatch, seen, mgrLoopErr,
                   workers, runnerStopping, runnerDead, runnerErr,
                   connVars, agentVars, waitVars, runVars, infraVars>>

----------------------------------------------------------------------------
\* The children of m.runner and the runner's own task.

ExitErrs == {"nil", "nonfatal", "fatal"}

\* what the runner does with an entry whose handle has terminated with err
\* (err is not fatal): removed when the runner is stopping or the entry is
\* desired stopped, otherwise kept for a restart after the delay
AfterExit(e, err, stopping) ==
    IF stopping \/ e.desired = "stopped"
    THEN Absent
    ELSE [status |-> "Terminated", desired |-> "running"]

\* the factory returned a handle
WorkerStarted(id) ==
    /\ workers[id].status = "Starting"
    /\ workers' = [workers EXCEPT ![id] =
                      IF runnerStopping \/ workers[id].desired = "stopped"
                      THEN [status |-> "Terminating", desired |-> "stopped"]
                      ELSE [status |-> "Running", desired |-> "running"]]
    /\ UNCHANGED <<life, watchPending, watchStopped, mgrPc, mgrBatch, seen, mgrLoopErr,
                   mgrDying, mgrReason, waiterDone, runnerStopping, runnerDead, runnerErr,
                   connVars, agentVars, waitVars, runVars, infraVars>>

\* the factory returned an error: a non-fatal restart
WorkerStartFailed(id) ==
    /\ workers[id].status = "Starting"
    /\ workers' = [workers EXCEPT ![id] = AfterExit(workers[id], "nonfatal", runnerStopping)]
    /\ UNCHANGED <<life, watchPending, watchStopped, mgrPc, mgrBatch, seen, mgrLoopErr,
                   mgrDying, mgrReason, waiterDone, runnerStopping, runnerDead, runnerErr,
                   connVars, agentVars, waitVars, runVars, infraVars>>

\* a fatal exit stops the runner without a stop request to the other children
ChildDone_NoKillAll(id, err) ==
    IF err = "fatal"
    THEN /\ workers' = [workers EXCEPT ![id] = Absent]
         /\ runnerStopping' = TRUE
         /\ runnerErr' = IF MoreImportant(err, runnerErr) THEN err ELSE runnerErr
    ELSE /\ workers' = [workers EXCEPT ![id] = AfterExit(workers[id], err, runnerStopping)]
         /\ UNCHANGED <<runnerStopping, runnerErr>>

\* a child's handle terminates with err, on its own (Running) or after it was
\* asked to stop (Terminating)
ChildDone(id, err) ==
    IF err = "fatal"
    THEN /\ workers' = [KillAll(workers) EXCEPT ![id] = Absent]
         /\ runnerStopping' = TRUE
         /\ runnerErr' = IF MoreImportant(err, runnerErr) THEN err ELSE runnerErr
    ELSE /\ workers' = [workers EXCEPT ![id] = AfterExit(workers[id], err, runnerStopping)]
         /\ UNCHANGED <<runnerStopping, runnerErr>>

WorkerExits(id) ==
    /\ workers[id].status = "Running"
    /\ \E err \in ExitErrs : ChildDone(id, err)
    /\ UNCHANGED <<life, watchPending, watchStopped, mgrPc, mgrBatch, seen, mgrLoopErr,
                   mgrDying, mgrReason, waiterDone, runnerDead, connVars, agentVars, waitVars, runVars, infraVars>>

WorkerStops(id) ==
    /\ workers[id].status = "Terminating"
    /\ \E err \in ExitErrs : ChildDone(id, err)
    /\ UNCHANGED <<life, watchPending, watchStopped, mgrPc, mgrBatch, seen, mgrLoopErr,
                   mgrDying, mgrReason, waiterDone, runnerDead, connVars, agentVars, waitVars, runVars, infraVars>>

\* the restart delay of a failed child has passed
WorkerRestart(id) ==
    /\ workers[id].status = "Terminated"
    /\ ~runnerStopping
    /\ workers' = [workers EXCEPT ![id].status = "Starting"]
    /\ UNCHANGED <<life, watchPending, watchStopped, mgrPc, mgrBatch, seen, mgrLoopErr,
                   mgrDying, mgrReason, waiterDone, runnerStopping, runnerDead, runnerErr,
                   connVars, agentVars, waitVars, runVars, infraVars>>

\* the runner terminates as soon as it is stopping
RunnerFinish_Early ==
    /\ runnerStopping
    /\ ~runnerDead
    /\ runnerDead' = TRUE
    /\ UNCHANGED <<life, watchPending, watchStopped, mgrPc, mgrBatch, seen, mgrLoopErr,
                   mgrDying, mgrReason, waiterDone, workers, runnerStopping, runnerErr,
                   connVars, agentVars, waitVars, runVars, infraVars>>

\* the runner terminates: it is stopping and all its children are gone
RunnerFinish ==
    /\ runnerStopping
    /\ ~runnerDead
    /\ \A id \in WorkerIds : workers[id].status = "Absent"
    /\ runnerDead' = TRUE
    /\ UNCHANGED <<life, watchPending, watchStopped, mgrPc, mgrBatch, seen, mgrLoopErr,
                   mgrDying, mgrReason, waiterDone, workers, runnerStopping, runnerErr,
                   connVars, agentVars, waitVars, runVars, infraVars>>

----------------------------------------------------------------------------
\* The models and their watcher (m.st.WatchEnvironments()).

NextLife(l) ==
    CASE l = "None"  -> "Alive"
      [] l = "Alive" -> "Dying"
      [] l = "Dying" -> "Dead"
      [] l = "Dead"  -> "Gone"

\* a model is created, destroyed, dies or is removed; the watcher reports it
EnvAdvance(uuid) ==
    /\ life[uuid] # "Gone"
    /\ life' = [life EXCEPT ![uuid] = NextLife(life[uuid])]
    /\ watchPending' = IF watchStopped THEN watchPending ELSE watchPending \cup {uuid}
    /\ UNCHANGED <<watchStopped, mgrPc, mgrBatch, seen, mgrLoopErr, mgrDying, mgrReason,
                   waiterDone, workers, runnerStopping, runnerDead, runnerErr,
                   connVars, agentVars, waitVars, runVars, infraVars>>

\* the watcher reports a model again although its life has not changed
EnvTouch(uuid) ==
    /\ life[uuid] \in Lives
    /\ ~watchStopped
    /\ uuid \notin watchPending
    /\ watchPending' = watchPending \cup {uuid}
    /\ UNCHANGED <<life, watchStopped, mgrPc, mgrBatch, seen, mgrLoopErr, mgrDying, mgrReason,
                   waiterDone, workers, runnerStopping, runnerDead, runnerErr,
                   connVars, agentVars, waitVars, runVars, infraVars>>

----------------------------------------------------------------------------
\* Per-model connection factories: the start functions envIsAlive and
\* envIsDying hand to the runner, with the agent's startEnvWorkers and
\* undertakerWorker (newRunnersForAPIConn) they call.

Kinds == {"alive", "dying"}

\* m.st.ForEnviron(modelTag)
FacForEnviron(k) ==
    /\ facPc[k] = "ForEnviron"
    /\ \E ok \in BOOLEAN :
         IF ok
         THEN /\ facPc' = [facPc EXCEPT ![k] = "OpenAPI"]
              /\ connLog' = [connLog EXCEPT ![k] = Append(@, "open state")]
         ELSE /\ facPc' = [facPc EXCEPT ![k] = "failed"]
              /\ UNCHANGED connLog
    /\ UNCHANGED <<subRunner, apiCloser, stCloser, mgrVars, agentVars, waitVars, runVars, infraVars>>

\* agentConfig.APIInfo(), apicaller.OpenAPIStateUsingInfo; on success
\* newConnRunner(st, apiSt) and the goroutine that closes the API connection;
\* on failure the start function closes the State and returns the error
FacOpenAPI(k) ==
    /\ facPc[k] = "OpenAPI"
    /\ \E ok \in BOOLEAN :
         IF ok
         THEN /\ facPc' = [facPc EXCEPT ![k] = "Machine"]
              /\ connLog' = [connLog EXCEPT ![k] = Append(@, "open api")]
              /\ subRunner' = [subRunner EXCEPT ![k] = "running"]
              /\ apiCloser' = [apiCloser EXCEPT ![k] = "waiting"]
         ELSE /\ facPc' = [facPc EXCEPT ![k] = "failed"]
              /\ connLog' = [connLog EXCEPT ![k] = Append(@, "close state")]
              /\ UNCHANGED <<subRunner, apiCloser>>
    /\ UNCHANGED <<stCloser, mgrVars, agentVars, waitVars, runVars, infraVars>>

\* ssSt.Machine(a.machineId) and newSingularStateRunner; on success the
\* workers are started, the runner is returned and the start function starts
\* the goroutine that closes the State; on failure the deferred
\* runner.Kill() runs
FacSingular(k) ==
    /\ facPc[k] = "Machine"
    /\ \E ok \in BOOLEAN :
         IF ok
         THEN /\ facPc' = [facPc EXCEPT ![k] = "returned"]
              /\ stCloser' = [stCloser EXCEPT ![k] = "waiting"]
              /\ UNCHANGED subRunner
         ELSE /\ facPc' = [facPc EXCEPT ![k] = "killWait"]
              /\ subRunner' = [subRunner EXCEPT ![k] =
                                  IF @ = "running" THEN "stopping" ELSE @]
              /\ UNCHANGED stCloser
    /\ UNCHANGED <<apiCloser, connLog, mgrVars, agentVars, waitVars, runVars, infraVars>>

\* the deferred runner.Wait() has returned: the error goes back to the start
\* function, which calls closeState()
FacCloseState(k) ==
    /\ facPc[k] = "killWait"
    /\ subRunner[k] = "dead"
    /\ facPc' = [facPc EXCEPT ![k] = "failed"]
    /\ connLog' = [connLog EXCEPT ![k] = Append(@, "close state")]
    /\ UNCHANGED <<subRunner, apiCloser, stCloser, mgrVars, agentVars, waitVars, runVars, infraVars>>

\* the parent runner asks the returned sub-runner to stop
SubRunnerKill(k) ==
    /\ facPc[k] = "returned"
    /\ subRunner[k] = "running"
    /\ subRunner' = [subRunner EXCEPT ![k] = "stopping"]
    /\ UNCHANGED <<facPc, apiCloser, stCloser, connLog, mgrVars, agentVars, waitVars, runVars, infraVars>>

\* the sub-runner terminates: after a stop request, or on its own when a
\* connection fails
SubRunnerDies(k) ==
    /\ subRunner[k] \in {"running", "stopping"}
    /\ subRunner' = [subRunner EXCEPT ![k] = "dead"]
    /\ connLog' = [connLog EXCEPT ![k] = Append(@, "runner dead")]
    /\ UNCHANGED <<facPc, apiCloser, stCloser, mgrVars, agentVars, waitVars, runVars, infraVars>>

\* go func() { runner.Wait(); apiSt.Close() }()
ApiCloserRuns(k) ==
    /\ apiCloser[k] = "waiting"
    /\ subRunner[k] = "dead"
    /\ apiCloser' = [apiCloser EXCEPT ![k] = "done"]
    /\ connLog' = [connLog EXCEPT ![k] = Append(@, "close api")]
    /\ UNCHANGED <<facPc, subRunner, stCloser, mgrVars, agentVars, waitVars, runVars, infraVars>>

\* go func() { envRunner.Wait(); closeState() }()
StCloserRuns(k) ==
    /\ stCloser[k] = "waiting"
    /\ subRunner[k] = "dead"
    /\ stCloser' = [stCloser EXCEPT ![k] = "done"]
    /\ connLog' = [connLog EXCEPT ![k] = Append(@, "close state")]
    /\ UNCHANGED <<facPc, subRunner, apiCloser, mgrVars, agentVars, waitVars, runVars, infraVars>>

----------------------------------------------------------------------------
\* MachineAgent: restore flags, upgrade gates and the login validator.

\* a.machineId
machineId == "0"

\* An auth tag is written <<kind, id>> for the string kind-id; anything else
\* does not parse.
TagKinds == {"machine", "user", "unit"}

AuthTags == {<<"machine", "0">>, <<"machine", "1">>, <<"user", "admin">>,
             <<"unit", "mysql/0">>, <<"bogus">>}

\* names.ParseTag
ParseTag(s) ==
    IF Len(s) = 2 /\ s[1] \in TagKinds
    THEN [err |-> FALSE, kind |-> s[1], id |-> s[2]]
    ELSE [err |-> TRUE, kind |-> "", id |-> ""]

\* a.Tag(): names.NewMachineTag(a.machineId)
Tag == [err |-> FALSE, kind |-> "machine", id |-> machineId]

IsRestorePreparing(mode, running) == mode /\ ~running

IsRestoreRunning(mode, running) == running

\* a closed channel is received from at once, an open one takes the default
isUpgradeRunning(ch) == ch # "closed"

isAgentUpgradePending(ch) == ch # "closed"

\* mutant: every machine is let in, not only the local one
limitLoginsDuringRestore_AnyMachine(mode, running, req) ==
    LET err == CASE IsRestoreRunning(mode, running)   -> "RestoreInProgressError"
                 [] IsRestorePreparing(mode, running) -> "AboutToRestoreError"
                 [] OTHER                             -> "nil"
        authTag == ParseTag(req)
    IN IF err # "nil"
       THEN IF authTag.err THEN "could not parse auth tag"
            ELSE IF authTag.kind = "user" THEN err
            ELSE IF authTag.kind = "machine" THEN "nil"
            ELSE "blocked because restore is in progress"
       ELSE "nil"

\* mutant: the case for user tags is missing
limitLoginsDuringRestore_NoUserCase(mode, running, req) ==
    LET err == CASE IsRestoreRunning(mode, running)   -> "RestoreInProgressError"
                 [] IsRestorePreparing(mode, running) -> "AboutToRestoreError"
                 [] OTHER                             -> "nil"
        authTag == ParseTag(req)
    IN IF err # "nil"
       THEN IF authTag.err THEN "could not parse auth tag"
            ELSE IF authTag.kind = "machine" /\ authTag = Tag THEN "nil"
            ELSE "blocked because restore is in progress"
       ELSE "nil"

limitLoginsDuringRestore(mode, running, req) ==
    LET err == CASE IsRestoreRunning(mode, running)   -> "RestoreInProgressError"
                 [] IsRestorePreparing(mode, running) -> "AboutToRestoreError"
                 [] OTHER                             -> "nil"
        authTag == ParseTag(req)
    IN IF err # "nil"
       THEN IF authTag.err THEN "could not parse auth tag"
            ELSE IF authTag.kind = "user" THEN err
            ELSE IF authTag.kind = "machine" /\ authTag = Tag THEN "nil"
            ELSE "blocked because restore is in progress"
       ELSE "nil"

\* mutant: the case that lets the local machine in is missing
limitLoginsDuringUpgrade_NoLocalCase(upg, chk, req) ==
    LET authTag == ParseTag(req)
    IN IF isUpgradeRunning(upg) \/ isAgentUpgradePending(chk)
       THEN IF authTag.err THEN "could not parse auth tag"
            ELSE IF authTag.kind = "user" THEN "UpgradeInProgressError"
            ELSE "blocked because upgrade in progress"
       ELSE "nil"

\* mutant: logins are limited only while both gates are unset
limitLoginsDuringUpgrade_BothGates(upg, chk, req) ==
    LET authTag == ParseTag(req)
    IN IF isUpgradeRunning(upg) /\ isAgentUpgradePending(chk)
       THEN IF authTag.err THEN "could not parse auth tag"
            ELSE IF authTag.kind = "user" THEN "UpgradeInProgressError"
            ELSE IF authTag.kind = "machine" /\ authTag = Tag THEN "nil"
            ELSE "blocked because upgrade in progress"
       ELSE "nil"

limitLoginsDuringUpgrade(upg, chk, req) ==
    LET authTag == ParseTag(req)
    IN IF isUpgradeRunning(upg) \/ isAgentUpgradePending(chk)
       THEN IF authTag.err THEN "could not parse auth tag"
            ELSE IF authTag.kind = "user" THEN "UpgradeInProgressError"
            ELSE IF authTag.kind = "machine" /\ authTag = Tag THEN "nil"
            ELSE "blocked because upgrade in progress"
       ELSE "nil"

\* mutant: the restore flags are not consulted
limitLogins_UpgradeOnly(mode, running, upg, chk, req) ==
    limitLoginsDuringUpgrade(upg, chk, req)

limitLogins(mode, running, upg, chk, req) ==
    LET err == limitLoginsDuringRestore(mode, running, req)
    IN IF err # "nil" THEN err ELSE limitLoginsDuringUpgrade(upg, chk, req)

\* What the API server makes of the validator's answer: a nil error admits
\* the login, the about-to-restore and upgrade-in-progress errors give the
\* client the restricted API, anything else refuses it.
admit(err) ==
    CASE err = "nil" -> "allow"
      [] err \in {"AboutToRestoreError", "UpgradeInProgressError"} -> "restricted"
      [] OTHER -> "refused"

NoLogin == [req |-> <<>>, mode |-> FALSE, running |-> FALSE,
            upg |-> "open", chk |-> "open", rerr |-> "none", err |-> "none"]

\* the API server calls the validator for a login attempt
Login(req) ==
    /\ login' = [req |-> req, mode |-> restoreMode, running |-> restoring,
                 upg |-> upgradeComplete, chk |-> initialAgentUpgradeCheckComplete,
                 rerr |-> limitLoginsDuringRestore(restoreMode, restoring, req),
                 err |-> limitLogins(restoreMode, restoring, upgradeComplete,
                                     initialAgentUpgradeCheckComplete, req)]
    /\ UNCHANGED <<restoreMode, restoring, upgradeComplete,
                   initialAgentUpgradeCheckComplete, restoreHist, restoreErr,
                   mgrVars, connVars, waitVars, runVars, infraVars>>

\* Restore states left by the agent that the history keeps.
MaxHist == 3

\* the restore state the two flags stand for
RestoreState(mode, running) ==
    IF running THEN "running" ELSE IF mode THEN "preparing" ELSE "idle"

\* the flags after an assignment, with the state left behind entered in the
\* history when the assignment changed the state
SetRestore(mode, running) ==
    /\ restoreMode' = mode
    /\ restoring' = running
    /\ restoreHist' =
         IF <<mode, running>> = <<restoreMode, restoring>> THEN restoreHist
         ELSE LET h == Append(restoreHist, RestoreState(restoreMode, restoring))
              IN IF Len(h) > MaxHist THEN Tail(h) ELSE h

\* PrepareRestore sets the restore mode without looking at it
PrepareRestore_NoCheck ==
    /\ SetRestore(TRUE, restoring)
    /\ restoreErr' = [op |-> "PrepareRestore", err |-> "nil"]
    /\ UNCHANGED <<upgradeComplete, initialAgentUpgradeCheckComplete, login,
                   mgrVars, connVars, waitVars, runVars, infraVars>>

PrepareRestore ==
    /\ IF restoreMode
       THEN /\ SetRestore(restoreMode, restoring)
            /\ restoreErr' = [op |-> "PrepareRestore", err |-> "already in restore mode"]
       ELSE /\ SetRestore(TRUE, restoring)
            /\ restoreErr' = [op |-> "PrepareRestore", err |-> "nil"]
    /\ UNCHANGED <<upgradeComplete, initialAgentUpgradeCheckComplete, login,
                   mgrVars, connVars, waitVars, runVars, infraVars>>

\* mutant: restoration begins without the agent being in restore mode
BeginRestore_NoModeCheck ==
    /\ IF restoring
       THEN /\ SetRestore(restoreMode, restoring)
            /\ restoreErr' = [op |-> "BeginRestore", err |-> "already restoring"]
       ELSE /\ SetRestore(restoreMode, TRUE)
            /\ restoreErr' = [op |-> "BeginRestore", err |-> "nil"]
    /\ UNCHANGED <<upgradeComplete, initialAgentUpgradeCheckComplete, login,
                   mgrVars, connVars, waitVars, runVars, infraVars>>

BeginRestore ==
    /\ CASE ~restoreMode ->
              /\ SetRestore(restoreMode, restoring)
              /\ restoreErr' = [op |-> "BeginRestore", err |-> "not in restore mode"]
         [] restoreMode /\ restoring ->
              /\ SetRestore(restoreMode, restoring)
              /\ restoreErr' = [op |-> "BeginRestore", err |-> "already restoring"]
         [] OTHER ->
              /\ SetRestore(restoreMode, TRUE)
              /\ restoreErr' = [op |-> "BeginRestore", err |-> "nil"]
    /\ UNCHANGED <<upgradeComplete, initialAgentUpgradeCheckComplete, login,
                   mgrVars, connVars, waitVars, runVars, infraVars>>

\* EndRestore leaves the restoring flag as it is
EndRestore_KeepsRestoring ==
    /\ SetRestore(FALSE, restoring)
    /\ restoreErr' = [op |-> "EndRestore", err |-> "nil"]
    /\ UNCHANGED <<upgradeComplete, initialAgentUpgradeCheckComplete, login,
                   mgrVars, connVars, waitVars, runVars, infraVars>>

EndRestore ==
    /\ SetRestore(FALSE, FALSE)
    /\ restoreErr' = [op |-> "EndRestore", err |-> "nil"]
    /\ UNCHANGED <<upgradeComplete, initialAgentUpgradeCheckComplete, login,
                   mgrVars, connVars, waitVars, runVars, infraVars>>

\* rinfo.Status() as the restore-info document can show it; "error" is
\* st.RestoreInfoSetter() failing
RestoreStatuses == {"RestorePending", "RestoreInProgress", "RestoreFinished",
                    "RestoreChecked", "RestoreFailed", "error"}

\* the restore-state watcher reports a change of the restore-info document
restoreChanged(status) ==
    CASE status = "RestorePending"    -> PrepareRestore
      [] status = "RestoreInProgress" -> BeginRestore
      [] status = "RestoreFailed"     -> EndRestore
      [] OTHER                        -> UNCHANGED vars

\* where a parked wrapper continues when its stop channel is closed
WokenByStop(pc) ==
    CASE pc \in {"blkUpgrade", "blkCheck"} -> "retNil"
      [] pc = "blkRunning"                 -> "kill"
      [] OTHER                             -> pc

\* where a parked wrapper continues when channel ch ("upgrade" or "check")
\* is closed
WokenByGate(pc, ch) ==
    CASE pc = "blkUpgrade" /\ ch = "upgrade" -> "selCheck"
      [] pc = "blkCheck" /\ ch = "check"     -> "start"
      [] OTHER                               -> pc

\* mutant: the upgrade-complete channel can be replaced by a fresh one
UpgradeStepsDone_Reopens ==
    /\ upgradeComplete' = IF upgradeComplete = "open" THEN "closed" ELSE "open"
    /\ waiterPc' = WokenByGate(waiterPc, "upgrade")
    /\ UNCHANGED <<restoreMode, restoring, initialAgentUpgradeCheckComplete, login,
                   restoreHist, restoreErr, waiterStop, waiterErr, waiterRuns, innerWorker, innerStart,
                   mgrVars, connVars, runVars, infraVars>>

\* the upgrade-steps worker closes the upgrade-complete channel
UpgradeStepsDone ==
    /\ upgradeComplete = "open"
    /\ upgradeComplete' = "closed"
    /\ waiterPc' = WokenByGate(waiterPc, "upgrade")
    /\ UNCHANGED <<restoreMode, restoring, initialAgentUpgradeCheckComplete, login,
                   restoreHist, restoreErr, waiterStop, waiterErr, waiterRuns, innerWorker, innerStart,
                   mgrVars, connVars, runVars, infraVars>>

\* the upgrader closes the initial-upgrade-check channel
InitialUpgradeCheckDone ==
    /\ initialAgentUpgradeCheckComplete = "open"
    /\ initialAgentUpgradeCheckComplete' = "closed"
    /\ waiterPc' = WokenByGate(waiterPc, "check")
    /\ UNCHANGED <<restoreMode, restoring, upgradeComplete, login, restoreHist, restoreErr,
                   waiterStop, waiterErr, waiterRuns, innerWorker, innerStart,
                   mgrVars, connVars, runVars, infraVars>>

----------------------------------------------------------------------------
\* startWorkerAfterUpgrade / upgradeWaiterWorker: one wrapped worker, the
\* runner that runs it, and the worker its start function returns.

\* How many times the runner runs the wrapper.
MaxRuns == 2

NoStart == [calls |-> 0, upg |-> "open", chk |-> "open", stopped |-> FALSE]

NoStop == [closed |-> FALSE, upg |-> "open", chk |-> "open"]

InnerErrs == {"nil", "worker error"}

\* A select of the wrapper is modelled in two positions: "sel..." when the
\* goroutine is about to evaluate it, and "blk..." when it found no case ready
\* and is parked.  A select evaluated with several cases ready takes any of
\* them; a parked goroutine is woken by the first channel operation that makes
\* a case ready and takes that case.

\* runner.StartWorker(name, ...): the runner calls the factory, which returns
\* the simple worker at once; its function begins at the first select
startWorkerAfterUpgrade ==
    /\ waiterPc = "none"
    /\ waiterPc' = "selUpgrade"
    /\ waiterRuns' = 1
    /\ UNCHANGED <<waiterStop, waiterErr, innerWorker, innerStart,
                   mgrVars, connVars, agentVars, runVars, infraVars>>

\* the runner starts the wrapper again after it has returned, unless the
\* runner itself asked it to stop
WaiterRestart ==
    /\ waiterPc = "done"
    /\ ~waiterStop.closed
    /\ waiterRuns < MaxRuns
    /\ waiterPc' = "selUpgrade"
    /\ waiterRuns' = waiterRuns + 1
    /\ waiterErr' = "none"
    /\ innerWorker' = [st |-> "none", err |-> "nil"]
    /\ innerStart' = NoStart
    /\ UNCHANGED <<waiterStop, mgrVars, connVars, agentVars, runVars, infraVars>>

\* Kill of the simple worker closes its stop channel
WaiterKill ==
    /\ waiterPc # "none"
    /\ ~waiterStop.closed
    /\ waiterStop' = [closed |-> TRUE, upg |-> upgradeComplete,
                      chk |-> initialAgentUpgradeCheckComplete]
    /\ waiterPc' = WokenByStop(waiterPc)
    /\ UNCHANGED <<waiterErr, waiterRuns, innerWorker, innerStart,
                   mgrVars, connVars, agentVars, runVars, infraVars>>

\* the channel the wrapper's loop waits for in position pc
GateOf(pc) ==
    IF pc \in {"selUpgrade", "blkUpgrade"} THEN upgradeComplete
    ELSE initialAgentUpgradeCheckComplete

\* mutant: a select of the gate loop finds nothing ready although the stop
\* channel is closed (the stop case is missing from the second round)
WaiterPark_IgnoresStop ==
    /\ \/ /\ waiterPc \in {"selUpgrade", "selCheck"}
          /\ GateOf(waiterPc) = "open"
          /\ waiterPc = "selUpgrade" => ~waiterStop.closed
          /\ waiterPc' = IF waiterPc = "selUpgrade" THEN "blkUpgrade" ELSE "blkCheck"
       \/ /\ waiterPc = "selRunning"
          /\ ~waiterStop.closed
          /\ innerWorker.st # "exited"
          /\ waiterPc' = "blkRunning"
    /\ UNCHANGED <<waiterStop, waiterErr, waiterRuns, innerWorker, innerStart,
                   mgrVars, connVars, agentVars, runVars, infraVars>>

\* a select finds no case ready: the goroutine parks
WaiterPark ==
    /\ \/ /\ waiterPc \in {"selUpgrade", "selCheck"}
          /\ GateOf(waiterPc) = "open"
          /\ ~waiterStop.closed
          /\ waiterPc' = IF waiterPc = "selUpgrade" THEN "blkUpgrade" ELSE "blkCheck"
       \/ /\ waiterPc = "selRunning"
          /\ ~waiterStop.closed
          /\ innerWorker.st # "exited"
          /\ waiterPc' = "blkRunning"
    /\ UNCHANGED <<waiterStop, waiterErr, waiterRuns, innerWorker, innerStart,
                   mgrVars, connVars, agentVars, runVars, infraVars>>

\* select: case <-stop: return nil
WaiterStopped ==
    /\ \/ waiterPc \in {"selUpgrade", "selCheck"} /\ waiterStop.closed
       \/ waiterPc = "retNil"
    /\ waiterPc' = "done"
    /\ waiterErr' = "nil"
    /\ UNCHANGED <<waiterStop, waiterRuns, innerWorker, innerStart,
                   mgrVars, connVars, agentVars, runVars, infraVars>>

\* mutant: only the upgrade-complete channel is waited for
WaiterGate_OneGate ==
    /\ waiterPc = "selUpgrade"
    /\ upgradeComplete = "closed"
    /\ waiterPc' = "start"
    /\ UNCHANGED <<waiterStop, waiterErr, waiterRuns, innerWorker, innerStart,
                   mgrVars, connVars, agentVars, runVars, infraVars>>

\* select: case <-ch: the channel of this round of the loop is closed
WaiterGate ==
    /\ \/ /\ waiterPc = "selUpgrade"
          /\ upgradeComplete = "closed"
          /\ waiterPc' = "selCheck"
       \/ /\ waiterPc = "selCheck"
          /\ initialAgentUpgradeCheckComplete = "closed"
          /\ waiterPc' = "start"
    /\ UNCHANGED <<waiterStop, waiterErr, waiterRuns, innerWorker, innerStart,
                   mgrVars, connVars, agentVars, runVars, infraVars>>

\* worker, err := start()
WaiterStart ==
    /\ waiterPc = "start"
    /\ innerStart' = [calls |-> innerStart.calls + 1, upg |-> upgradeComplete,
                      chk |-> initialAgentUpgradeCheckComplete,
                      stopped |-> waiterStop.closed]
    /\ \E err \in {"nil", "start failed"} :
         IF err # "nil"
         THEN /\ waiterPc' = "done"
              /\ waiterErr' = err
              /\ UNCHANGED innerWorker
         ELSE /\ waiterPc' = "selRunning"
              /\ innerWorker' = [st |-> "running", err |-> "nil"]
              /\ UNCHANGED waiterErr
    /\ UNCHANGED <<waiterStop, waiterRuns, mgrVars, connVars, agentVars, runVars, infraVars>>

\* the started worker finishes, by itself or because it was killed, and the
\* goroutine waiting for it offers its error on waitCh
InnerExits ==
    /\ innerWorker.st \in {"running", "killed"}
    /\ \E err \in InnerErrs : innerWorker' = [st |-> "exited", err |-> err]
    /\ waiterPc' = IF waiterPc = "blkRunning" THEN "retWait" ELSE waiterPc
    /\ UNCHANGED <<waiterStop, waiterErr, waiterRuns, innerStart,
                   mgrVars, connVars, agentVars, runVars, infraVars>>

\* select: case err := <-waitCh: return err
WaiterInnerDone ==
    /\ \/ waiterPc = "selRunning" /\ innerWorker.st = "exited"
       \/ waiterPc = "retWait"
    /\ waiterPc' = "done"
    /\ waiterErr' = innerWorker.err
    /\ UNCHANGED <<waiterStop, waiterRuns, innerWorker, innerStart,
                   mgrVars, connVars, agentVars, runVars, infraVars>>

\* select: case <-stop: worker.Kill()
WaiterKillInner ==
    /\ \/ waiterPc = "selRunning" /\ waiterStop.closed
       \/ waiterPc = "kill"
    /\ waiterPc' = "killed"
    /\ innerWorker' = IF innerWorker.st = "running"
                      THEN [innerWorker EXCEPT !.st = "killed"]
                      ELSE innerWorker
    /\ UNCHANGED <<waiterStop, waiterErr, waiterRuns, innerStart,
                   mgrVars, connVars, agentVars, runVars, infraVars>>

\* mutant: the wrapper returns after the kill without receiving from waitCh
WaiterKilledDone_NoWait ==
    /\ waiterPc = "killed"
    /\ waiterPc' = "done"
    /\ waiterErr' = innerWorker.err
    /\ UNCHANGED <<waiterStop, waiterRuns, innerWorker, innerStart,
                   mgrVars, connVars, agentVars, runVars, infraVars>>

\* return <-waitCh
WaiterKilledDone ==
    /\ waiterPc = "killed"
    /\ innerWorker.st = "exited"
    /\ waiterPc' = "done"
    /\ waiterErr' = innerWorker.err
    /\ UNCHANGED <<waiterStop, waiterRuns, innerWorker, innerStart,
                   mgrVars, connVars, agentVars, runVars, infraVars>>

----------------------------------------------------------------------------
\* MachineAgent.Run: the startup steps, the wait for the root runner, and what
\* is done with the runner's terminal error.  runLog holds <<step, outcome>>
\* entries in the order the steps were made.

\* an error: its message and, for a failed uninstall, the errors it carries
Err(msg) == [msg |-> msg, errs |-> <<>>]

Done(step, outcome) == Append(runLog, <<step, outcome>>)

\* Run returns err (the deferred a.tomb.Done() runs)
RunReturns(err) ==
    /\ runPc' = "returned"
    /\ runErr' = err

\* a.ReadConfig(a.Tag().String())
RunReadConfig ==
    /\ runPc = "ReadConfig"
    /\ \E ok \in BOOLEAN :
         IF ok
         THEN /\ runLog' = Done("ReadConfig", "ok")
              /\ runPc' = "upgradeCertificateDNSNames"
              /\ UNCHANGED runErr
         ELSE /\ runLog' = Done("ReadConfig", "failed")
              /\ RunReturns(Err("cannot read agent configuration"))
    /\ UNCHANGED <<uninstallFile, mgrVars, connVars, agentVars, waitVars, infraVars>>

\* a.upgradeCertificateDNSNames()
RunUpgradeCertificateDNSNames ==
    /\ runPc = "upgradeCertificateDNSNames"
    /\ \E ok \in BOOLEAN :
         IF ok
         THEN /\ runLog' = Done("upgradeCertificateDNSNames", "ok")
              /\ runPc' = "NewChannel"
              /\ UNCHANGED runErr
         ELSE /\ runLog' = Done("upgradeCertificateDNSNames", "failed")
              /\ RunReturns(Err("error upgrading server certificate"))
    /\ UNCHANGED <<uninstallFile, mgrVars, connVars, agentVars, waitVars, infraVars>>

\* upgradesteps.NewChannel(a); a.upgradeComplete = upgradeComplete.  The
\* channel it returns is one nobody has closed.
RunNewChannel ==
    /\ runPc = "NewChannel"
    /\ \E ok \in BOOLEAN :
         IF ok
         THEN /\ runLog' = Done("NewChannel", "ok")
              /\ upgradeComplete' = "open"
              /\ runPc' = "createJujudSymlinks"
              /\ UNCHANGED runErr
         ELSE /\ runLog' = Done("NewChannel", "failed")
              /\ RunReturns(Err("error during creating upgrade completion channel"))
              /\ UNCHANGED upgradeComplete
    /\ UNCHANGED <<uninstallFile, restoreMode, restoring, initialAgentUpgradeCheckComplete,
                   login, restoreHist, restoreErr, mgrVars, connVars, waitVars, infraVars>>

\* mutant: a failure to create the symlinks is not returned
RunCreateJujudSymlinks_ErrorDropped ==
    /\ runPc = "createJujudSymlinks"
    /\ \E ok \in BOOLEAN :
         /\ runLog' = Done("createJujudSymlinks", IF ok THEN "ok" ELSE "failed")
         /\ runPc' = "StartWorker api"
         /\ UNCHANGED runErr
    /\ UNCHANGED <<uninstallFile, mgrVars, connVars, agentVars, waitVars, infraVars>>

\* a.createJujudSymlinks(agentConfig.DataDir())
RunCreateJujudSymlinks ==
    /\ runPc = "createJujudSymlinks"
    /\ \E ok \in BOOLEAN :
         IF ok
         THEN /\ runLog' = Done("createJujudSymlinks", "ok")
              /\ runPc' = "StartWorker api"
              /\ UNCHANGED runErr
         ELSE /\ runLog' = Done("createJujudSymlinks", "failed")
              /\ RunReturns(Err("failed to create symlink"))
    /\ UNCHANGED <<uninstallFile, mgrVars, connVars, agentVars, waitVars, infraVars>>

\* the workers Run starts on a.runner, in the order it starts them
TopLevelWorkers == <<"api", "statestarter", "termination">>

\* a.runner.StartWorker(name, ...), its error ignored
RunStartWorker ==
    /\ \E i \in 1..Len(TopLevelWorkers) :
         /\ runPc = "StartWorker " \o TopLevelWorkers[i]
         /\ runLog' = Done("StartWorker", TopLevelWorkers[i])
         /\ runPc' = IF i < Len(TopLevelWorkers)
                     THEN "StartWorker " \o TopLevelWorkers[i + 1]
                     ELSE "Wait"
    /\ UNCHANGED <<runErr, uninstallFile, mgrVars, connVars, agentVars, waitVars, infraVars>>

\* writeUninstallAgentFile: a worker that found the machine dead or removed
\* leaves the marker in the data directory; workers run while Run waits
writeUninstallAgentFile ==
    /\ runPc = "Wait"
    /\ uninstallFile' = TRUE
    /\ UNCHANGED <<runPc, runLog, runErr, mgrVars, connVars, agentVars, waitVars, infraVars>>

\* the errors a.runner.Wait() can return
RootErrs == {"nil", "ErrTerminateAgent", "ErrRebootMachine", "ErrShutdownMachine",
             "fatal error"}

\* err := a.runner.Wait(); switch errors.Cause(err)
RunWait ==
    /\ runPc = "Wait"
    /\ \E err \in RootErrs :
         /\ runLog' = Done("Wait", err)
         /\ runErr' = Err(err)
         /\ runPc' = CASE err = "ErrTerminateAgent"  -> "Stat"
                       [] err = "ErrRebootMachine"   -> "OpenAPIState"
                       [] err = "ErrShutdownMachine" -> "OpenAPIState"
                       [] OTHER                      -> "AgentDone"
    /\ UNCHANGED <<uninstallFile, mgrVars, connVars, agentVars, waitVars, infraVars>>

\* the steps of uninstallAgent that can add to its errors, in its order
UninstallSteps == <<"Remove service", "Remove jujuRun", "Remove jujuDumpLogs",
                    "RunningInsideLXC", "DetachLoopDevices", "RemoveService mongo",
                    "RemoveAll DataDir">>

\* the entries of the log made by uninstallAgent
UninstallLog(log) == SelectSeq(log, LAMBDA e : \E i \in 1..Len(UninstallSteps) : e[1] = UninstallSteps[i])

\* the errors slice: one error for every step that failed, in order
UninstallErrors(log) == SelectSeq(UninstallLog(log), LAMBDA e : e[2] = "failed")

\* mutant: only the error of the last step is looked at
UninstallResult_LastOnly(log) ==
    IF log[Len(log)][2] # "failed" THEN Err("nil")
    ELSE [msg |-> "uninstall failed", errs |-> <<log[Len(log)]>>]

\* if len(errors) == 0 { return nil }; return fmt.Errorf("uninstall failed: %v", errors)
UninstallResult(log) ==
    IF Len(UninstallErrors(log)) = 0 THEN Err("nil")
    ELSE [msg |-> "uninstall failed", errs |-> UninstallErrors(log)]

\* mutant: the uninstall file is not looked for
UninstallStat_AlwaysUninstalls ==
    /\ runPc = "Stat"
    /\ runLog' = Done("Stat", IF uninstallFile THEN "exists" ELSE "absent")
    /\ runPc' = "Remove service"
    /\ UNCHANGED runErr
    /\ UNCHANGED <<uninstallFile, mgrVars, connVars, agentVars, waitVars, infraVars>>

\* uninstallAgent: os.Stat(uninstallFile)
UninstallStat ==
    /\ runPc = "Stat"
    /\ runLog' = Done("Stat", IF uninstallFile THEN "exists" ELSE "absent")
    /\ IF uninstallFile
       THEN /\ runPc' = "Remove service"
            /\ UNCHANGED runErr
       ELSE /\ runPc' = "AgentDone"
            /\ runErr' = Err("nil")
    /\ UNCHANGED <<uninstallFile, mgrVars, connVars, agentVars, waitVars, infraVars>>

\* uninstallAgent: the agent's service is discovered and removed when its name
\* is known from the configuration or from UPSTART_JOB
UninstallService ==
    /\ runPc = "Remove service"
    /\ \E outcome \in {"no name", "ok", "failed"} : runLog' = Done("Remove service", outcome)
    /\ runPc' = "removeJujudSymlinks"
    /\ UNCHANGED <<runErr, uninstallFile, mgrVars, connVars, agentVars, waitVars, infraVars>>

\* removeJujudSymlinks: both links are removed; a link that does not exist is
\* no error
removeJujudSymlinks ==
    /\ runPc = "removeJujudSymlinks"
    /\ \E o1, o2 \in {"ok", "not exist", "failed"} :
         runLog' = runLog \o << <<"Remove jujuRun", o1>>, <<"Remove jujuDumpLogs", o2>> >>
    /\ runPc' = "RunningInsideLXC"
    /\ UNCHANGED <<runErr, uninstallFile, mgrVars, connVars, agentVars, waitVars, infraVars>>

\* uninstallAgent: lxcutils.RunningInsideLXC(), and inside a container
\* a.loopDeviceManager.DetachLoopDevices("/", dataDir)
UninstallLoopDevices ==
    /\ runPc = "RunningInsideLXC"
    /\ \E inside \in {"failed", "inside", "outside"} :
         IF inside = "inside"
         THEN \E outcome \in {"ok", "failed"} :
                runLog' = runLog \o << <<"RunningInsideLXC", inside>>,
                                       <<"DetachLoopDevices", outcome>> >>
         ELSE runLog' = Done("RunningInsideLXC", inside)
    /\ runPc' = "RemoveService mongo"
    /\ UNCHANGED <<runErr, uninstallFile, mgrVars, connVars, agentVars, waitVars, infraVars>>

\* uninstallAgent: mongo.RemoveService(namespace)
UninstallMongo ==
    /\ runPc = "RemoveService mongo"
    /\ \E outcome \in {"ok", "failed"} : runLog' = Done("RemoveService mongo", outcome)
    /\ runPc' = "RemoveAll DataDir"
    /\ UNCHANGED <<runErr, uninstallFile, mgrVars, connVars, agentVars, waitVars, infraVars>>

\* uninstallAgent: os.RemoveAll(agentConfig.DataDir()) and the result; the
\* uninstall file goes with the data directory
UninstallDataDir ==
    /\ runPc = "RemoveAll DataDir"
    /\ \E outcome \in {"ok", "failed"} :
         /\ runLog' = Done("RemoveAll DataDir", outcome)
         /\ uninstallFile' = IF outcome = "ok" THEN FALSE ELSE uninstallFile
    /\ runErr' = UninstallResult(runLog')
    /\ runPc' = "AgentDone"
    /\ UNCHANGED <<mgrVars, connVars, agentVars, waitVars, infraVars>>

\* the action executeRebootOrShutdown is called with
RebootAction(log) ==
    IF \E i \in 1..Len(log) : log[i] = <<"Wait", "ErrRebootMachine">>
    THEN "ShouldReboot" ELSE "ShouldShutdown"

\* executeRebootOrShutdown: apicaller.OpenAPIState(a)
RebootOpenAPIState ==
    /\ runPc = "OpenAPIState"
    /\ \E ok \in BOOLEAN :
         IF ok
         THEN /\ runLog' = Done("OpenAPIState", "ok")
              /\ runPc' = "NewRebootWaiter"
              /\ UNCHANGED runErr
         ELSE /\ runLog' = Done("OpenAPIState", "failed")
              /\ runPc' = "AgentDone"
              /\ runErr' = Err("cannot open api")
    /\ UNCHANGED <<uninstallFile, mgrVars, connVars, agentVars, waitVars, infraVars>>

\* mutant: the reboot goes ahead without a reboot waiter
RebootNewRebootWaiter_ErrorDropped ==
    /\ runPc = "NewRebootWaiter"
    /\ \E ok \in BOOLEAN :
         /\ runLog' = Done("NewRebootWaiter", IF ok THEN "ok" ELSE "failed")
         /\ runPc' = "ExecuteReboot"
         /\ UNCHANGED runErr
    /\ UNCHANGED <<uninstallFile, mgrVars, connVars, agentVars, waitVars, infraVars>>

\* executeRebootOrShutdown: reboot.NewRebootWaiter(st, agentCfg)
RebootNewRebootWaiter ==
    /\ runPc = "NewRebootWaiter"
    /\ \E ok \in BOOLEAN :
         IF ok
         THEN /\ runLog' = Done("NewRebootWaiter", "ok")
              /\ runPc' = "ExecuteReboot"
              /\ UNCHANGED runErr
         ELSE /\ runLog' = Done("NewRebootWaiter", "failed")
              /\ runPc' = "AgentDone"
              /\ runErr' = Err("cannot create reboot waiter")
    /\ UNCHANGED <<uninstallFile, mgrVars, connVars, agentVars, waitVars, infraVars>>

\* executeRebootOrShutdown: finalize.ExecuteReboot(action) waits for the
\* units and containers and issues the host action
RebootExecute ==
    /\ runPc = "ExecuteReboot"
    /\ \E ok \in BOOLEAN :
         IF ok
         THEN /\ runLog' = Done("ExecuteReboot", RebootAction(runLog))
              /\ runErr' = Err("ErrRebootMachine")
         ELSE /\ runLog' = Done("ExecuteReboot", "failed")
              /\ runErr' = Err("cannot execute reboot")
    /\ runPc' = "AgentDone"
    /\ UNCHANGED <<uninstallFile, mgrVars, connVars, agentVars, waitVars, infraVars>>

\* cmdutil.AgentDone: the lifecycle errors mean a clean exit
AgentDone(err) ==
    IF err.msg \in {"ErrTerminateAgent", "ErrRebootMachine", "ErrShutdownMachine"}
    THEN Err("nil") ELSE err

\* err = cmdutil.AgentDone(logger, err); a.tomb.Kill(err); return err
RunDone ==
    /\ runPc = "AgentDone"
    /\ RunReturns(AgentDone(runErr))
    /\ UNCHANGED <<runLog, uninstallFile, mgrVars, connVars, agentVars, waitVars, infraVars>>

----------------------------------------------------------------------------
\* MachineAgent.stateStarter and MachineAgent.ChangeConfig.

\* Number of times the agent configuration is changed.
MaxChanges == 3

NoRequest == [info |-> FALSE, asked |-> "none"]

\* ChangeConfig(mutate): a.AgentConfigWriter.ChangeConfig(mutate), which
\* leaves the config with or without serving info, and then, whatever the
\* error, a.configChangedVal.Set(struct{}{})
ChangeConfig(info) ==
    /\ \/ /\ ~confWriting
          /\ confVersion < MaxChanges
          /\ servingInfo' = info
          /\ confWriting' = TRUE
          /\ UNCHANGED confVersion
       \/ /\ confWriting
          /\ confVersion' = confVersion + 1
          /\ confWriting' = FALSE
          /\ UNCHANGED servingInfo
    /\ UNCHANGED <<confSeen, watchChFull, starterPc, starterStop, starterErr, starterLast,
                   rootWorkers, mgrVars, connVars, agentVars, waitVars, runVars,
                   engVars, gateVars, callVars>>

\* stateStarter handles every notification as if the config had serving info
stateStarter_AlwaysStarts ==
    \/ /\ starterPc = "loop"
       /\ ~watchChFull
       /\ confSeen < confVersion
       /\ confSeen' = confVersion
       /\ watchChFull' = TRUE
       /\ UNCHANGED <<servingInfo, confWriting, confVersion, starterPc, starterStop,
                      starterErr, starterLast, rootWorkers, mgrVars, connVars, agentVars,
                      waitVars, runVars, engVars, gateVars, callVars>>
    \/ /\ starterPc = "loop"
       /\ watchChFull
       /\ watchChFull' = FALSE
       /\ IF servingInfo
          THEN /\ rootWorkers' = RunnerStart(rootWorkers, "state")
               /\ starterLast' = [info |-> servingInfo, asked |-> "start"]
          ELSE /\ rootWorkers' = RunnerStart(rootWorkers, "state")
               /\ starterLast' = [info |-> servingInfo, asked |-> "start"]
       /\ UNCHANGED <<servingInfo, confWriting, confVersion, confSeen, starterPc,
                      starterStop, starterErr, mgrVars, connVars, agentVars, waitVars,
                      runVars, engVars, gateVars, callVars>>
    \/ /\ starterPc = "loop"
       /\ starterStop
       /\ starterPc' = "done"
       /\ starterErr' = "nil"
       /\ UNCHANGED <<servingInfo, confWriting, confVersion, confSeen, watchChFull,
                      starterStop, starterLast, rootWorkers, mgrVars, connVars, agentVars,
                      waitVars, runVars, engVars, gateVars, callVars>>

\* stateStarter(stopch): the goroutine that forwards confWatch.Next() to
\* watchCh, and the select loop: a notification makes it read the current
\* config and call StartWorker("state") or StopWorker("state"), whose errors
\* are dropped; stopch makes it return nil (and close confWatch).
stateStarter ==
    \/ /\ starterPc = "loop"
       /\ ~watchChFull
       /\ confSeen < confVersion
       /\ confSeen' = confVersion
       /\ watchChFull' = TRUE
       /\ UNCHANGED <<servingInfo, confWriting, confVersion, starterPc, starterStop,
                      starterErr, starterLast, rootWorkers, mgrVars, connVars, agentVars,
                      waitVars, runVars, engVars, gateVars, callVars>>
    \/ /\ starterPc = "loop"
       /\ watchChFull
       /\ watchChFull' = FALSE
       /\ IF servingInfo
          THEN /\ rootWorkers' = RunnerStart(rootWorkers, "state")
               /\ starterLast' = [info |-> servingInfo, asked |-> "start"]
          ELSE /\ rootWorkers' = RunnerStop(rootWorkers, "state")
               /\ starterLast' = [info |-> servingInfo, asked |-> "stop"]
       /\ UNCHANGED <<servingInfo, confWriting, confVersion, confSeen, starterPc,
                      starterStop, starterErr, mgrVars, connVars, agentVars, waitVars,
                      runVars, engVars, gateVars, callVars>>
    \/ /\ starterPc = "loop"
       /\ starterStop
       /\ starterPc' = "done"
       /\ starterErr' = "nil"
       /\ UNCHANGED <<servingInfo, confWriting, confVersion, confSeen, watchChFull,
                      starterStop, starterLast, rootWorkers, mgrVars, connVars, agentVars,
                      waitVars, runVars, engVars, gateVars, callVars>>

\* the simple worker around stateStarter is killed: stopch is closed
StarterKill ==
    /\ ~starterStop
    /\ starterStop' = TRUE
    /\ UNCHANGED <<servingInfo, confWriting, confVersion, confSeen, watchChFull, starterPc,
                   starterErr, starterLast, rootWorkers, mgrVars, connVars, agentVars,
                   waitVars, runVars, engVars, gateVars, callVars>>

\* the "state" entry of a.runner: its factory returns the worker, the worker
\* terminates, on its own or asked to, and the runner restarts it
StateWorker ==
    /\ \/ /\ rootWorkers["state"].status = "Starting"
          /\ rootWorkers' = [rootWorkers EXCEPT !["state"] =
                                IF rootWorkers["state"].desired = "stopped"
                                THEN [status |-> "Terminating", desired |-> "stopped"]
                                ELSE [status |-> "Running", desired |-> "running"]]
       \/ /\ rootWorkers["state"].status \in {"Running", "Terminating"}
          /\ \E err \in {"nil", "nonfatal"} :
                rootWorkers' = [rootWorkers EXCEPT !["state"] =
                                   AfterExit(rootWorkers["state"], err, FALSE)]
       \/ /\ rootWorkers["state"].status = "Terminated"
          /\ rootWorkers' = [rootWorkers EXCEPT !["state"].status = "Starting"]
    /\ UNCHANGED <<servingInfo, confWriting, confVersion, confSeen, watchChFull, starterPc,
                   starterStop, starterErr, starterLast, mgrVars, connVars, agentVars,
                   waitVars, runVars, engVars, gateVars, callVars>>

----------------------------------------------------------------------------
\* Dependency engine (section 4.2) and the manifolds installed in it.

\* Number of times the engine starts one manifold.
MaxStarts == 3

\* the manifolds of the three-node scenario
GraphNames == {"A", "B", "C"}

FlagNames == {"run-flag", "not-dead-flag", "not-alive-flag"}

\* dependency.WithFlag(manifold, flagName): the flag becomes one more input
WithFlag(inputs, flagName) == inputs \cup {flagName}

runFlag(inputs) == WithFlag(inputs, "run-flag")

\* notAliveFlag without the run flag
notAliveFlag_NoRunFlag(inputs) == WithFlag(inputs, "not-alive-flag")

notAliveFlag(inputs) == runFlag(WithFlag(inputs, "not-alive-flag"))

notDeadFlag(inputs) == runFlag(WithFlag(inputs, "not-dead-flag"))

\* Manifolds(config), as name :> inputs: the foundational manifolds, the
\* flags, the environ tracker, the undertaker and, for the workers wrapped by
\* notDeadFlag, the state cleaner
Manifolds ==
    [n \in {"agent", "clock", "api-caller", "not-dead-flag", "not-alive-flag", "run-flag",
            "environ-tracker", "undertaker", "state-cleaner"} |->
        CASE n = "agent"           -> {}
          [] n = "clock"           -> {}
          [] n = "api-caller"      -> {"agent"}
          [] n = "not-dead-flag"   -> {"api-caller"}
          [] n = "not-alive-flag"  -> {"api-caller"}
          [] n = "run-flag"        -> {"clock", "agent", "api-caller"}
          [] n = "environ-tracker" -> runFlag({"api-caller"})
          [] n = "undertaker"      -> notAliveFlag({"api-caller", "environ-tracker", "clock"})
          [] n = "state-cleaner"   -> notDeadFlag({"api-caller"})]

\* what a flag manifold's worker finds when it starts: life.IsNotDead and
\* life.IsNotAlive of the model, and whether this controller holds the lease
FlagValue(f, w) ==
    CASE f = "not-dead-flag"  -> w.life # "dead"
      [] f = "not-alive-flag" -> w.life # "alive"
      [] f = "run-flag"       -> w.lease
      [] OTHER                -> TRUE

NotInstalled == [status |-> "Stopped", behind |-> FALSE, starts |-> 0, killed |-> FALSE,
                 value |-> TRUE]

\* the names reachable from name through inputs in graph g
RECURSIVE Reach(_, _, _)
Reach(g, from, n) ==
    IF n = 0 THEN from
    ELSE Reach(g, from \cup UNION {g[x] : x \in from \cap DOMAIN g}, n - 1)

Acyclic(g) == \A x \in DOMAIN g : x \notin Reach(g, g[x], Cardinality(DOMAIN g))

\* Install only rejects a name that is already present
InstallResult_NoCycleCheck(g, name, inputs) ==
    IF name \in DOMAIN g THEN g ELSE g @@ (name :> inputs)

\* Install(name, manifold): rejected if the name is already present or if
\* the manifold would introduce a cycle
InstallResult(g, name, inputs) ==
    IF name \in DOMAIN g \/ ~Acyclic(g @@ (name :> inputs))
    THEN g
    ELSE g @@ (name :> inputs)

Install(name, inputs) ==
    /\ manifolds' = InstallResult(manifolds, name, inputs)
    /\ eng' = [n \in DOMAIN manifolds' |-> IF n \in DOMAIN eng THEN eng[n] ELSE NotInstalled]
    /\ UNCHANGED <<modelWorld, mgrVars, connVars, agentVars, waitVars, runVars,
                   startVars, gateVars, callVars>>

\* dependency.Install(engine, Manifolds(config)) when the model worker starts
InstallManifolds ==
    /\ manifolds = <<>>
    /\ manifolds' = Manifolds
    /\ eng' = [n \in DOMAIN Manifolds |-> NotInstalled]
    /\ UNCHANGED <<modelWorld, mgrVars, connVars, agentVars, waitVars, runVars,
                   startVars, gateVars, callVars>>

Dependents(m) == {d \in DOMAIN manifolds : m \in manifolds[d]}

InputsRunning(m) ==
    \A i \in manifolds[m] : i \in DOMAIN manifolds /\ eng[i].status = "Running"

\* the flags a manifold is wrapped with let it run
FlagsSet(m) == \A f \in manifolds[m] \cap FlagNames : eng[f].value

\* a Stopped manifold is started whatever the state of its inputs
EngineStart_IgnoresInputs(m) ==
    /\ eng[m].status = "Stopped"
    /\ eng[m].starts < MaxStarts
    /\ eng' = [n \in DOMAIN eng |->
                 IF n = m
                 THEN [eng[m] EXCEPT !.status = "Running", !.behind = FALSE,
                                     !.starts = @ + 1, !.value = FlagValue(m, modelWorld)]
                 ELSE IF n \in Dependents(m) /\ eng[n].status # "Stopped"
                      THEN [eng[n] EXCEPT !.behind = TRUE]
                      ELSE eng[n]]
    /\ UNCHANGED <<manifolds, modelWorld, mgrVars, connVars, agentVars, waitVars, runVars,
                   startVars, gateVars, callVars>>

\* step 1: a Stopped manifold whose inputs are all Running is started; its
\* start returns unmet (it stays Stopped) or a handle (it moves to Running,
\* and the generation of its dependents is incremented)
EngineStart(m) ==
    /\ eng[m].status = "Stopped"
    /\ InputsRunning(m)
    /\ eng[m].starts < MaxStarts
    /\ IF FlagsSet(m)
       THEN eng' = [n \in DOMAIN eng |->
                      IF n = m
                      THEN [eng[m] EXCEPT !.status = "Running", !.behind = FALSE,
                                          !.starts = @ + 1, !.value = FlagValue(m, modelWorld)]
                      ELSE IF n \in Dependents(m) /\ eng[n].status # "Stopped"
                           THEN [eng[n] EXCEPT !.behind = TRUE]
                           ELSE eng[n]]
       ELSE UNCHANGED eng
    /\ UNCHANGED <<manifolds, modelWorld, mgrVars, connVars, agentVars, waitVars, runVars,
                   startVars, gateVars, callVars>>

\* the engine forgets that an input of a Running manifold has restarted
EngineStop_ForgetsRestart(m) ==
    /\ eng[m].status = "Running"
    /\ eng[m].behind
    /\ eng' = [eng EXCEPT ![m].behind = FALSE]
    /\ UNCHANGED <<manifolds, modelWorld, mgrVars, connVars, agentVars, waitVars, runVars,
                   startVars, gateVars, callVars>>

\* step 2: a Running manifold one of whose inputs has (re)started since it
\* was started is asked to stop
EngineStop(m) ==
    /\ eng[m].status = "Running"
    /\ eng[m].behind
    /\ eng' = [eng EXCEPT ![m].status = "Stopping"]
    /\ UNCHANGED <<manifolds, modelWorld, mgrVars, connVars, agentVars, waitVars, runVars,
                   startVars, gateVars, callVars>>

\* step 2 and 3: the handle of a manifold terminates, asked to stop by the
\* engine (Stopping) or not: the manifold returns to Stopped with its
\* generation cleared.  A handle that was not asked to stop terminates
\* because it is killed or fails (kind "kill"), or, a flag's worker, because
\* the value it published is no longer the case (kind "flag").
HandleDone(m, kind) ==
    /\ CASE kind = "stop" -> eng[m].status = "Stopping"
         [] kind = "kill" -> eng[m].status = "Running" /\ m \in GraphNames
         [] kind = "flag" -> /\ eng[m].status = "Running"
                             /\ m \in FlagNames
                             /\ eng[m].value # FlagValue(m, modelWorld)
    /\ eng' = [eng EXCEPT ![m].status = "Stopped", ![m].behind = FALSE,
                          ![m].killed = @ \/ kind = "kill"]
    /\ UNCHANGED <<manifolds, modelWorld, mgrVars, connVars, agentVars, waitVars, runVars,
                   startVars, gateVars, callVars>>

\* the model goes from alive to dying to dead; the lease is lost or regained
WorldChanges ==
    /\ \/ /\ modelWorld.life # "dead"
          /\ modelWorld' = [modelWorld EXCEPT !.life = IF @ = "alive" THEN "dying" ELSE "dead"]
       \/ modelWorld' = [modelWorld EXCEPT !.lease = ~@]
    /\ UNCHANGED <<manifolds, eng, mgrVars, connVars, agentVars, waitVars, runVars,
                   startVars, gateVars, callVars>>

----------------------------------------------------------------------------
\* Singular gate (section 4.3): the run-flag of one model, claimed by the
\* controllers' processes against one lease store.

\* Number of processes that claim the lease.
MaxProcs == 2

\* RunFlagDuration, the lease duration D, in clock ticks.
LeaseD == 4

Procs == 1..MaxProcs

NoLease == [holder |-> 0, ttl |-> 0]

\* a correct lease store grants the key to a claimant if nobody holds an
\* unexpired lease on it, and extends a lease only for its holder
LeaseFree(l) == l.holder = 0 \/ l.ttl = 0

\* acquire: on success publish held=true and start the renewal cycle; on
\* failure retry later
GateAcquire(p) ==
    /\ gatePc[p] = "waiting"
    /\ IF LeaseFree(lease)
       THEN /\ lease' = [holder |-> p, ttl |-> LeaseD]
            /\ held' = [held EXCEPT ![p] = TRUE]
            /\ gatePc' = [gatePc EXCEPT ![p] = "holding"]
            /\ gateAge' = [gateAge EXCEPT ![p] = 0]
       ELSE UNCHANGED <<lease, held, gatePc, gateAge>>
    /\ UNCHANGED <<mgrVars, connVars, agentVars, waitVars, runVars, startVars, engVars, callVars>>

\* a failed renewal leaves held=true published
GateRenew_KeepsHeld(p, ok) ==
    /\ gatePc[p] = "holding"
    /\ gateAge[p] >= LeaseD \div 2
    /\ IF ok
       THEN /\ lease.holder = p /\ lease.ttl > 0
            /\ lease' = [lease EXCEPT !.ttl = LeaseD]
            /\ gateAge' = [gateAge EXCEPT ![p] = 0]
            /\ UNCHANGED <<held, gatePc>>
       ELSE /\ gatePc' = [gatePc EXCEPT ![p] = "waiting"]
            /\ UNCHANGED <<lease, held, gateAge>>
    /\ UNCHANGED <<mgrVars, connVars, agentVars, waitVars, runVars, startVars, engVars, callVars>>

\* the renewal cycle, at D/2 after the last claim: the store extends the
\* lease, or the renewal fails (the store refuses or cannot be reached) and
\* the process publishes held=false and goes back to acquiring
GateRenew(p, ok) ==
    /\ gatePc[p] = "holding"
    /\ gateAge[p] >= LeaseD \div 2
    /\ IF ok
       THEN /\ lease.holder = p /\ lease.ttl > 0
            /\ lease' = [lease EXCEPT !.ttl = LeaseD]
            /\ gateAge' = [gateAge EXCEPT ![p] = 0]
            /\ UNCHANGED <<held, gatePc>>
       ELSE /\ held' = [held EXCEPT ![p] = FALSE]
            /\ gatePc' = [gatePc EXCEPT ![p] = "waiting"]
            /\ UNCHANGED <<lease, gateAge>>
    /\ UNCHANGED <<mgrVars, connVars, agentVars, waitVars, runVars, startVars, engVars, callVars>>

\* a holder shuts down without releasing the lease
GateExit_KeepsLease(p) ==
    /\ gatePc[p] # "exited"
    /\ gatePc' = [gatePc EXCEPT ![p] = "exited"]
    /\ held' = [held EXCEPT ![p] = FALSE]
    /\ UNCHANGED <<lease, gateAge, mgrVars, connVars, agentVars, waitVars, runVars,
                   startVars, engVars, callVars>>

\* clean shutdown: a holder releases the lease
GateExit(p) ==
    /\ gatePc[p] # "exited"
    /\ gatePc' = [gatePc EXCEPT ![p] = "exited"]
    /\ held' = [held EXCEPT ![p] = FALSE]
    /\ lease' = IF gatePc[p] = "holding" /\ lease.holder = p THEN NoLease ELSE lease
    /\ UNCHANGED <<gateAge, mgrVars, connVars, agentVars, waitVars, runVars, startVars, engVars, callVars>>

\* time passes.  The participants respect the clock skew of D/4: a holder
\* whose renewal has been due for D/4 has renewed or given up.
GateTick ==
    /\ \A p \in Procs :
          gatePc[p] = "holding" => gateAge[p] < LeaseD \div 2 + LeaseD \div 4
    /\ lease' = [lease EXCEPT !.ttl = IF @ > 0 THEN @ - 1 ELSE 0]
    /\ gateAge' = [p \in Procs |-> IF gatePc[p] = "holding" THEN gateAge[p] + 1 ELSE gateAge[p]]
    /\ UNCHANGED <<held, gatePc, mgrVars, connVars, agentVars, waitVars, runVars,
                   startVars, engVars, callVars>>

\* ---------------------------------------------------------------------------
\* A limitLogins call that runs on an API server task while the restore
\* watcher task changes the restore flags.  The flags are plain fields read
\* without a lock, so the call is modelled read by read.
\* ---------------------------------------------------------------------------

NoCall == [pc |-> "idle", req |-> <<>>, modeAll |-> FALSE,
           sawRunning |-> FALSE, sawPreparing |-> FALSE, err |-> "none"]

\* limitLogins(req), step by step: the first case of the switch in
\* limitLoginsDuringRestore reads a.restoring, the second reads a.restoreMode
\* and a.restoring again, and the rest of the call works on what was read and
\* on the upgrade gates.  modeAll records that a.restoreMode was set at every
\* step of the call.
LoginCall ==
    /\ \/ \E req \in AuthTags :
             /\ loginCall.pc \in {"idle", "done"}
             /\ loginCall' = [NoCall EXCEPT !.pc = "IsRestoreRunning", !.req = req,
                                            !.modeAll = restoreMode]
       \/ /\ loginCall.pc = "IsRestoreRunning"
          /\ loginCall' = [loginCall EXCEPT
                             !.pc = IF IsRestoreRunning(restoreMode, restoring)
                                    THEN "return" ELSE "IsRestorePreparing",
                             !.sawRunning = IsRestoreRunning(restoreMode, restoring),
                             !.modeAll = @ /\ restoreMode]
       \/ /\ loginCall.pc = "IsRestorePreparing"
          /\ loginCall' = [loginCall EXCEPT
                             !.pc = "return",
                             !.sawPreparing = IsRestorePreparing(restoreMode, restoring),
                             !.modeAll = @ /\ restoreMode]
       \/ /\ loginCall.pc = "return"
          /\ loginCall' = [loginCall EXCEPT
                             !.pc = "done",
                             !.modeAll = @ /\ restoreMode,
                             !.err = limitLogins(loginCall.sawRunning \/ loginCall.sawPreparing,
                                                 loginCall.sawRunning, upgradeComplete,
                                                 initialAgentUpgradeCheckComplete,
                                                 loginCall.req)]
    /\ UNCHANGED <<apiWorker, mongoInitMutex, mongoInitialized, mongoCall,
                   mgrVars, connVars, agentVars, waitVars, runVars,
                   startVars, engVars, gateVars>>

\* ---------------------------------------------------------------------------
\* MachineAgent.APIWorker up to the point where it has decided what to
\* return, and the runner that calls it again after an error
\* ---------------------------------------------------------------------------

\* apiWorker.conn: "none" before OpenAPIState has returned a connection,
\* then "open", and "closed" once st.Close() has run.
\* apiWorker.marker: the uninstall-agent file exists in the data directory.
NotCalled == [pc |-> "OpenAPIState", conn |-> "none", life |-> "none",
              err |-> "none", marker |-> FALSE]

EntityLife == {"alive", "dying", "dead"}

\* mutant: the deferred function does not close the connection
APIReturn_NoClose(w, err) ==
    [w EXCEPT !.pc = "done", !.err = err]

\* a return statement of APIWorker after the defer is in place: the deferred
\* function closes the connection when the error returned is not nil
APIReturn(w, err) ==
    [w EXCEPT !.pc = "done", !.err = err,
              !.conn = IF err # "nil" THEN "closed" ELSE @]

\* APIWorker: open the connection, look the machine up, and for a dead
\* machine write the uninstall file before asking the agent to terminate.
\* The last disjunct is the runner calling APIWorker again after an error that
\* is not fatal.
APIWorker ==
    /\ \/ /\ apiWorker.pc = "OpenAPIState"
          /\ \/ apiWorker' = [apiWorker EXCEPT !.pc = "done", !.err = "cannot open api"]
             \/ apiWorker' = [apiWorker EXCEPT !.pc = "Entity", !.conn = "open"]
       \/ /\ apiWorker.pc = "Entity"
          /\ \/ apiWorker' = APIReturn(apiWorker, "cannot get entity")
             \/ \E l \in EntityLife :
                   apiWorker' = [apiWorker EXCEPT
                                   !.life = l,
                                   !.pc = IF l = "dead" THEN "writeUninstallAgentFile"
                                          ELSE "Jobs"]
       \/ /\ apiWorker.pc = "writeUninstallAgentFile"
          /\ \/ apiWorker' = APIReturn(apiWorker, "writing uninstall agent file")
             \/ apiWorker' = APIReturn([apiWorker EXCEPT !.marker = TRUE],
                                       "ErrTerminateAgent")
       \/ /\ apiWorker.pc = "Jobs"
          /\ \/ apiWorker' = APIReturn(apiWorker, "cannot get state serving info")
             \/ apiWorker' = APIReturn(apiWorker, "cannot change config")
             \/ apiWorker' = APIReturn(apiWorker, "nil")
       \/ /\ apiWorker.pc = "done"
          /\ apiWorker.err \notin {"nil", "ErrTerminateAgent"}
          /\ apiWorker' = [NotCalled EXCEPT !.marker = apiWorker.marker]
    /\ UNCHANGED <<loginCall, mongoInitMutex, mongoInitialized, mongoCall,
                   mgrVars, connVars, agentVars, waitVars, runVars,
                   startVars, engVars, gateVars>>

\* ---------------------------------------------------------------------------
\* MachineAgent.ensureMongoServer, called by the state worker and by the
\* upgrade steps worker
\* ---------------------------------------------------------------------------

MongoCallers == {"StateWorker", "openStateForUpgrade"}

Unlocked == ""

NoMongoCall == [pc |-> "idle", ret |-> "none", wasInit |-> FALSE, steps |-> FALSE]

\* mutant: the deferred function sets the flag whatever the call returns
mongoReturn_AlwaysSets(c, err) ==
    /\ mongoCall' = [mongoCall EXCEPT ![c].pc = "idle", ![c].ret = err]
    /\ mongoInitialized' = TRUE
    /\ mongoInitMutex' = Unlocked

\* a return of ensureMongoServer: its deferred functions set mongoInitialized
\* when the error is nil and then unlock the mutex
mongoReturn(c, err) ==
    /\ mongoCall' = [mongoCall EXCEPT ![c].pc = "idle", ![c].ret = err]
    /\ mongoInitialized' = (mongoInitialized \/ err = "nil")
    /\ mongoInitMutex' = Unlocked

\* ensureMongoServer called by c: take the mutex, return at once when mongo
\* is already initialised, otherwise run the initialisation steps, any of
\* which may fail
ensureMongoServer(c) ==
    /\ \/ /\ mongoCall[c].pc = "idle"
          /\ mongoCall' = [mongoCall EXCEPT
                             ![c] = [NoMongoCall EXCEPT !.pc = "Lock",
                                                        !.wasInit = mongoInitialized]]
          /\ UNCHANGED <<mongoInitMutex, mongoInitialized>>
       \/ /\ mongoCall[c].pc = "Lock"
          /\ mongoInitMutex = Unlocked
          /\ mongoInitMutex' = c
          /\ mongoCall' = [mongoCall EXCEPT ![c].pc = "mongoInitialized"]
          /\ UNCHANGED mongoInitialized
       \/ /\ mongoCall[c].pc = "mongoInitialized"
          /\ IF mongoInitialized
             THEN mongoReturn(c, "nil")
             ELSE /\ mongoCall' = [mongoCall EXCEPT ![c].pc = "IsServiceInstalled"]
                  /\ UNCHANGED <<mongoInitMutex, mongoInitialized>>
       \/ /\ mongoCall[c].pc = "IsServiceInstalled"
          /\ \/ mongoReturn(c, "error while checking if mongodb service is installed")
             \/ /\ mongoCall' = [mongoCall EXCEPT ![c].pc = "EnsureMongoServer",
                                                  ![c].steps = TRUE]
                /\ UNCHANGED <<mongoInitMutex, mongoInitialized>>
       \/ /\ mongoCall[c].pc = "EnsureMongoServer"
          /\ \/ mongoReturn(c, "cannot ensure mongo server")
             \/ mongoReturn(c, "nil")
    /\ UNCHANGED <<loginCall, apiWorker,
                   mgrVars, connVars, agentVars, waitVars, runVars,
                   startVars, engVars, gateVars>>

----------------------------------------------------------------------------
Init ==
    /\ life = [u \in Models |-> "None"]
    /\ watchPending = {}
    /\ watchStopped = FALSE
    /\ mgrPc = "loop"
    /\ mgrBatch = <<>>
    /\ seen = [u \in Models |-> [env |-> "none", err |-> "nil", again |-> FALSE, stage |-> 0]]
    /\ mgrLoopErr = "nil"
    /\ mgrDying = FALSE
    /\ mgrReason = "StillAlive"
    /\ waiterDone = FALSE
    /\ workers = [id \in WorkerIds |-> Absent]
    /\ runnerStopping = FALSE
    /\ runnerDead = FALSE
    /\ runnerErr = "nil"
    /\ facPc = [k \in Kinds |-> "ForEnviron"]
    /\ subRunner = [k \in Kinds |-> "none"]
    /\ apiCloser = [k \in Kinds |-> "none"]
    /\ stCloser = [k \in Kinds |-> "none"]
    /\ connLog = [k \in Kinds |-> <<>>]
    /\ restoreMode = FALSE
    /\ restoring = FALSE
    /\ upgradeComplete = "open"
    /\ initialAgentUpgradeCheckComplete = "open"
    /\ login = NoLogin
    /\ restoreHist = <<>>
    /\ restoreErr = [op |-> "none", err |-> "nil"]
    /\ waiterPc = "none"
    /\ waiterStop = NoStop
    /\ waiterErr = "none"
    /\ waiterRuns = 0
    /\ innerWorker = [st |-> "none", err |-> "nil"]
    /\ innerStart = NoStart
    /\ runPc = "ReadConfig"
    /\ runLog = <<>>
    /\ runErr = [msg |-> "none", errs |-> <<>>]
    /\ uninstallFile = FALSE
    /\ servingInfo = FALSE
    /\ confWriting = FALSE
    /\ confVersion = 1
    /\ confSeen = 0
    /\ watchChFull = FALSE
    /\ starterPc = "loop"
    /\ starterStop = FALSE
    /\ starterErr = "none"
    /\ starterLast = NoRequest
    /\ rootWorkers = [n \in {"state"} |-> Absent]
    /\ manifolds = <<>>
    /\ eng = <<>>
    /\ modelWorld = [life |-> "alive", lease |-> TRUE]
    /\ lease = NoLease
    /\ held = [p \in Procs |-> FALSE]
    /\ gatePc = [p \in Procs |-> "waiting"]
    /\ gateAge = [p \in Procs |-> 0]
    /\ loginCall = NoCall
    /\ apiWorker = NotCalled
    /\ mongoInitMutex = Unlocked
    /\ mongoInitialized = FALSE
    /\ mongoCall = [c \in MongoCallers |-> NoMongoCall]

\* the per-model manager, its runner and the models it watches
MgrNext ==
    \/ MgrReceive
    \/ MgrEnvHasChanged
    \/ MgrSeeDying
    \/ MgrExit
    \/ MgrDone
    \/ MgrKill
    \/ MgrRunnerWaiter
    \/ RunnerFinish
    \/ \E id \in WorkerIds : WorkerStarted(id)
    \/ \E id \in WorkerIds : WorkerStartFailed(id)
    \/ \E id \in WorkerIds : WorkerExits(id)
    \/ \E id \in WorkerIds : WorkerStops(id)
    \/ \E id \in WorkerIds : WorkerRestart(id)
    \/ \E uuid \in Models : EnvAdvance(uuid)
    \/ \E uuid \in Models : EnvTouch(uuid)

SpecMgr == Init /\ [][MgrNext]_vars

\* Every task that can take a step eventually takes it, a factory call
\* returns, and a worker that was asked to stop terminates.
MgrFairness ==
    /\ WF_vars(MgrReceive)
    /\ WF_vars(MgrEnvHasChanged)
    /\ WF_vars(MgrSeeDying)
    /\ WF_vars(MgrExit)
    /\ WF_vars(MgrDone)
    /\ WF_vars(MgrRunnerWaiter)
    /\ WF_vars(RunnerFinish)
    /\ \A id \in WorkerIds : WF_vars(WorkerStops(id))
    /\ \A id \in WorkerIds : WF_vars(WorkerStarted(id) \/ WorkerStartFailed(id))

SpecMgrFair == Init /\ [][MgrNext]_vars /\ MgrFairness

\* the connection factories of the alive and the dying runner of one model
ConnNext ==
    \/ \E k \in Kinds : FacForEnviron(k)
    \/ \E k \in Kinds : FacOpenAPI(k)
    \/ \E k \in Kinds : FacSingular(k)
    \/ \E k \in Kinds : FacCloseState(k)
    \/ \E k \in Kinds : SubRunnerKill(k)
    \/ \E k \in Kinds : SubRunnerDies(k)
    \/ \E k \in Kinds : ApiCloserRuns(k)
    \/ \E k \in Kinds : StCloserRuns(k)

SpecConn == Init /\ [][ConnNext]_vars

\* the agent's restore flags, upgrade gates and login validator
AgentNext ==
    \/ \E req \in AuthTags : Login(req)
    \/ PrepareRestore
    \/ BeginRestore
    \/ EndRestore
    \/ \E status \in RestoreStatuses : restoreChanged(status)
    \/ UpgradeStepsDone
    \/ InitialUpgradeCheckDone

SpecAgent == Init /\ [][AgentNext]_vars

\* one worker started through startWorkerAfterUpgrade, and the two gates
WaitNext ==
    \/ startWorkerAfterUpgrade
    \/ WaiterRestart
    \/ WaiterKill
    \/ WaiterPark
    \/ WaiterStopped
    \/ WaiterGate
    \/ WaiterStart
    \/ InnerExits
    \/ WaiterInnerDone
    \/ WaiterKillInner
    \/ WaiterKilledDone
    \/ UpgradeStepsDone
    \/ InitialUpgradeCheckDone

SpecWait == Init /\ [][WaitNext]_vars

\* The wrapper's goroutine is scheduled, and a worker that was killed stops.
\* Nothing obliges the gates to be set or anyone to ask the wrapper to stop.
WaitFairness ==
    /\ WF_vars(WaiterPark)
    /\ WF_vars(WaiterStopped)
    /\ WF_vars(WaiterGate)
    /\ WF_vars(WaiterStart)
    /\ WF_vars(WaiterInnerDone)
    /\ WF_vars(WaiterKillInner)
    /\ WF_vars(WaiterKilledDone)

SpecWaitFair == Init /\ [][WaitNext]_vars /\ WaitFairness

\* Run, and the workers that write the uninstall file while it waits
RunNext ==
    \/ RunReadConfig
    \/ RunUpgradeCertificateDNSNames
    \/ RunNewChannel
    \/ RunCreateJujudSymlinks
    \/ RunStartWorker
    \/ writeUninstallAgentFile
    \/ RunWait
    \/ UninstallStat
    \/ UninstallService
    \/ removeJujudSymlinks
    \/ UninstallLoopDevices
    \/ UninstallMongo
    \/ UninstallDataDir
    \/ RebootOpenAPIState
    \/ RebootNewRebootWaiter
    \/ RebootExecute
    \/ RunDone

SpecRun == Init /\ [][RunNext]_vars

\* Run together with a worker it started: the workers, and with them the
\* wrapper and whoever sets the gates, run from the moment Run has started
\* them until the root runner's Wait returns
LifeNext ==
    \/ RunNext
    \/ runPc = "Wait" /\ WaitNext

SpecLife == Init /\ [][LifeNext]_vars

\* the state-starter, the configuration it watches and the "state" worker
StarterNext ==
    \/ \E info \in BOOLEAN : ChangeConfig(info)
    \/ stateStarter
    \/ StarterKill
    \/ StateWorker

SpecStarter == Init /\ [][StarterNext]_vars

\* the engine with the manifolds of the three-node scenario
EngineNext ==
    \/ \E name \in GraphNames : \E inputs \in SUBSET GraphNames : Install(name, inputs)
    \/ \E m \in DOMAIN manifolds : EngineStart(m)
    \/ \E m \in DOMAIN manifolds : EngineStop(m)
    \/ \E m \in DOMAIN manifolds : \E kind \in {"stop", "kill"} : HandleDone(m, kind)

SpecEngine == Init /\ [][EngineNext]_vars

\* the engine of a model worker, with the manifolds of the model
FlagsNext ==
    \/ InstallManifolds
    \/ \E m \in DOMAIN manifolds : EngineStart(m)
    \/ \E m \in DOMAIN manifolds : EngineStop(m)
    \/ \E m \in DOMAIN manifolds : \E kind \in {"stop", "flag"} : HandleDone(m, kind)
    \/ WorldChanges

SpecFlags == Init /\ [][FlagsNext]_vars

\* the processes claiming the lease of one model
GateNext ==
    \/ \E p \in Procs : GateAcquire(p)
    \/ \E p \in Procs : \E ok \in BOOLEAN : GateRenew(p, ok)
    \/ \E p \in Procs : GateExit(p)
    \/ GateTick

SpecGate == Init /\ [][GateNext]_vars

\* a process that is waiting for the lease keeps retrying its acquisition
GateFairness == \A p \in Procs : WF_vars(GateAcquire(p))

SpecGateFair == Init /\ [][GateNext]_vars /\ GateFairness

\* a login call step by step beside the restore operations and the gates
LoginRaceNext ==
    \/ LoginCall
    \/ PrepareRestore
    \/ BeginRestore
    \/ EndRestore
    \/ UpgradeStepsDone
    \/ InitialUpgradeCheckDone

SpecLoginRace == Init /\ [][LoginRaceNext]_vars

\* the api worker and the callers of ensureMongoServer
CallNext ==
    \/ APIWorker
    \/ \E c \in MongoCallers : ensureMongoServer(c)

SpecCalls == Init /\ [][CallNext]_vars

Next == MgrNext \/ ConnNext \/ AgentNext \/ WaitNext \/ RunNext \/ StarterNext
           \/ EngineNext \/ FlagsNext \/ GateNext \/ LoginRaceNext \/ CallNext

Spec == Init /\ [][Next]_vars

----------------------------------------------------------------------------
\* Properties of the per-model manager.

\* this step is the envHasChanged call for uuid, and its lookup saw env
Dispatched(uuid, env) ==
    /\ mgrPc = "handling"
    /\ mgrBatch # <<>>
    /\ mgrBatch' # mgrBatch
    /\ Head(mgrBatch) = uuid
    /\ seen'[uuid].env = env

\* the entry has been asked to stop and has not terminated yet
StopAsked(e) == e.status = "Terminating" \/ (e.status = "Starting" /\ e.desired = "stopped")

\* the last call for uuid saw env and returned nil
Saw(uuid, env) == seen[uuid].env = env /\ seen[uuid].err = "nil"

NoWorkers(uuid) ==
    /\ workers[aliveEnvWorkerId(uuid)].status = "Absent"
    /\ workers[dyingEnvWorkerId(uuid)].status = "Absent"

C4_NotFoundStopsBoth ==
    [][\A u \in Models :
          Dispatched(u, "NotFound") /\ ~runnerDead =>
              /\ workers'[aliveEnvWorkerId(u)].desired = "stopped"
              /\ workers'[aliveEnvWorkerId(u)].status \notin {"Running", "Terminated"}
              /\ workers'[dyingEnvWorkerId(u)].desired = "stopped"
              /\ workers'[dyingEnvWorkerId(u)].status \notin {"Running", "Terminated"}
              /\ seen'[u].err = "nil"
              /\ mgrPc' \in {"loop", "handling"}]_vars

\* a model was not found while both its runners ran: both were asked to stop
\* and the manager is back in its loop
C4_Witness ==
    \E u \in Models :
        /\ Saw(u, "NotFound")
        /\ mgrPc = "loop"
        /\ ~runnerStopping
        /\ workers[aliveEnvWorkerId(u)].status = "Terminating"
        /\ workers[dyingEnvWorkerId(u)].status = "Terminating"

\* C5: once the calls for a model have seen it Alive, Dying, Dead and not
\* found, in that order, the system reaches a state from which that model has
\* neither an alive-runner nor a dying-runner, and stays there.
C5_TearDown ==
    \A u \in Models : [](seen[u].stage = Len(Stages) => <>[]NoWorkers(u))

\* all four steps were seen, the manager and its runner are still at work,
\* and the model's workers are gone
C5_Witness ==
    \E u \in Models :
        /\ seen[u].stage = Len(Stages)
        /\ Saw(u, "NotFound")
        /\ mgrPc = "loop"
        /\ ~runnerStopping
        /\ NoWorkers(u)

----------------------------------------------------------------------------
\* Properties of the connection factories.

\* where x first stands in log, 0 if it does not
Pos(log, x) ==
    IF \E i \in DOMAIN log : log[i] = x
    THEN CHOOSE i \in DOMAIN log : log[i] = x /\ \A j \in 1..(i - 1) : log[j] # x
    ELSE 0

Before(log, x, y) == Pos(log, y) > 0 => (0 < Pos(log, x) /\ Pos(log, x) < Pos(log, y))

\* the State is opened before the API connection
OpenOrder(k) == Before(connLog[k], "open state", "open api")

\* once there is a sub-runner, nothing is closed before it has terminated
CloseAfterRunner(k) ==
    Pos(connLog[k], "open api") > 0 =>
        /\ Before(connLog[k], "runner dead", "close api")
        /\ Before(connLog[k], "runner dead", "close state")

\* the API connection, opened last, is closed first
ReverseClose(k) ==
    Pos(connLog[k], "open api") > 0 => Before(connLog[k], "close api", "close state")

\* C7 as stated: a factory opens the State first and the API connection
\* second, closes neither before the sub-runner has terminated, and, when it
\* has returned its sub-runner, closes the API connection before the State.
C7_ReverseCloseOrder ==
    \A k \in Kinds :
        /\ OpenOrder(k)
        /\ CloseAfterRunner(k)
        /\ facPc[k] = "returned" => ReverseClose(k)

----------------------------------------------------------------------------
\* Properties of the login validator.

\* the login request of the agent's own machine
LocalReq == <<"machine", machineId>>

IsUser(req) == Len(req) = 2 /\ req[1] = "user"

IsEntity(req) == Len(req) = 2 /\ req[1] \in TagKinds

Called == login.err # "none"

C9_RestorePreparing ==
    Called /\ login.mode /\ ~login.running =>
        CASE login.req = LocalReq -> login.rerr = "nil"
          [] IsUser(login.req)    -> login.err = "AboutToRestoreError"
          [] IsEntity(login.req)  -> login.err = "blocked because restore is in progress"
          [] OTHER                -> login.err = "could not parse auth tag"

\* a user's login made while restore was preparing got the about-to-restore response
C9_Witness ==
    /\ login.mode
    /\ ~login.running
    /\ IsUser(login.req)
    /\ login.err = "AboutToRestoreError"

\* C10: with restore idle and one of the two upgrade gates unset, the local
\* machine's login is allowed, a user's login gets the upgrade-in-progress
\* response and any other login gets an error that blocks it; with restore
\* idle and both gates set every login is allowed.
C10_UpgradeGates ==
    Called /\ ~login.mode /\ ~login.running =>
        IF login.upg = "closed" /\ login.chk = "closed"
        THEN login.err = "nil"
        ELSE CASE login.req = LocalReq -> login.err = "nil"
               [] IsUser(login.req)    -> login.err = "UpgradeInProgressError"
               [] IsEntity(login.req)  -> login.err = "blocked because upgrade in progress"
               [] OTHER                -> login.err = "could not parse auth tag"

\* with restore idle, upgrade steps done and the initial upgrade check still
\* to come, a user's login got the upgrade-in-progress response
C10_Witness ==
    /\ ~login.mode
    /\ ~login.running
    /\ login.upg = "closed"
    /\ login.chk = "open"
    /\ IsUser(login.req)
    /\ login.err = "UpgradeInProgressError"

----------------------------------------------------------------------------
\* Properties of the restore flags.

\* the answer the scenario expects for a human user in each restore state
ExpectedAdmit(st) ==
    CASE st = "idle"      -> "allow"
      [] st = "preparing" -> "restricted"
      [] st = "running"   -> "refused"

RestoreStep(st0, st1) ==
    /\ RestoreState(restoreMode, restoring) = st0
    /\ RestoreState(restoreMode', restoring') = st1

RestoreStateChanges == <<restoreMode', restoring'>> # <<restoreMode, restoring>>

\* C12 (as stated): the restore state changes only idle -> preparing,
\* preparing -> running and running -> idle.
C12_OnlyCycleTransitions ==
    [][RestoreStateChanges =>
         \/ RestoreStep("idle", "preparing")
         \/ RestoreStep("preparing", "running")
         \/ RestoreStep("running", "idle")]_vars

\* C12 (amended): the restore state changes only idle -> preparing,
\* preparing -> running, running -> idle and, when EndRestore is called
\* while preparing, preparing -> idle; restoring is never set outside restore
\* mode, so idle -> running and running -> preparing never happen.
C12_RestoreTransitions ==
    [][/\ RestoreStateChanges =>
            \/ RestoreStep("idle", "preparing")
            \/ RestoreStep("preparing", "running")
            \/ RestoreStep("running", "idle")
            \/ RestoreStep("preparing", "idle")
       /\ restoring' => restoreMode']_vars

\* restore was abandoned while preparing, after a full cycle had been seen
C12_Witness ==
    /\ Len(restoreHist) >= 2
    /\ restoreHist[Len(restoreHist)] = "preparing"
    /\ restoreHist[Len(restoreHist) - 1] = "idle"
    /\ RestoreState(restoreMode, restoring) = "idle"

----------------------------------------------------------------------------
\* Properties of the upgrade-waiting wrapper and of the gates.

\* C13: the start function of a worker started through
\* startWorkerAfterUpgrade is only ever invoked with the upgrade-complete
\* channel and the initial-upgrade-check channel both closed, and at most
\* once in each run of the wrapper.
C13_StartOnlyAfterBothGates ==
    /\ innerStart.calls <= 1
    /\ innerStart.calls > 0 =>
         (innerStart.upg = "closed" /\ innerStart.chk = "closed")
    /\ waiterPc \in {"start", "selRunning", "blkRunning", "retWait", "kill", "killed"} =>
         (upgradeComplete = "closed" /\ initialAgentUpgradeCheckComplete = "closed")

\* the second run of the wrapper has called start, once
C13_Witness ==
    /\ waiterRuns = MaxRuns
    /\ innerStart.calls = 1
    /\ innerWorker.st = "running"

\* C14: when the wrapper's stop channel is closed before the
\* upgrade-complete channel is, start is not invoked afterwards.
C14_NoStartAfterEarlyStop ==
    (waiterStop.closed /\ waiterStop.upg = "open") =>
        /\ waiterPc # "start"
        /\ innerStart.calls > 0 => ~innerStart.stopped

\* C15: a wrapper asked to stop while it waits for a channel that is never
\* closed eventually returns nil.
C15_StopRespectedDuringWait ==
    \A pc \in {"selUpgrade", "blkUpgrade", "retNil", "selCheck", "blkCheck"} :
        (waiterStop.closed /\ waiterPc = pc /\ GateOf(pc) = "open")
            ~> \/ waiterPc = "done" /\ waiterErr = "nil" /\ innerStart.calls = 0
               \/ GateOf(pc) = "closed"

\* the wrapper has returned nil on a stop request with a gate still unset,
\* without having called start
C15_Witness ==
    /\ waiterPc = "done"
    /\ waiterErr = "nil"
    /\ waiterStop.closed
    /\ innerStart.calls = 0
    /\ upgradeComplete = "closed"
    /\ initialAgentUpgradeCheckComplete = "open"

\* C16: each gate is set at most once and never unset again, so
\* isUpgradeRunning and isAgentUpgradePending never return true after they
\* have returned false; and a wrapper that comes to wait for a gate that is
\* already set does not block on it.
C16_GatesOneShot ==
    [][/\ ~isUpgradeRunning(upgradeComplete) => ~isUpgradeRunning(upgradeComplete')
       /\ ~isAgentUpgradePending(initialAgentUpgradeCheckComplete)
            => ~isAgentUpgradePending(initialAgentUpgradeCheckComplete')
       /\ (waiterPc \in {"selUpgrade", "selCheck"} /\ GateOf(waiterPc) = "closed")
            => waiterPc' \notin {"blkUpgrade", "blkCheck"}
       /\ (waiterPc \in {"selUpgrade", "selCheck"} /\ GateOf(waiterPc) = "closed"
           /\ ~waiterStop.closed /\ waiterPc' # waiterPc)
            => waiterPc' = IF waiterPc = "selUpgrade" THEN "selCheck" ELSE "start"]_vars

\* a run of the wrapper that began after both gates were set has passed them
C16_Witness ==
    /\ waiterRuns = MaxRuns
    /\ waiterPc = "start"
    /\ ~waiterStop.closed
    /\ ~isUpgradeRunning(upgradeComplete)
    /\ ~isAgentUpgradePending(initialAgentUpgradeCheckComplete)

----------------------------------------------------------------------------
\* Properties of Run.

InLog(e) == \E i \in 1..Len(runLog) : runLog[i] = e

Attempted(step) == \E i \in 1..Len(runLog) : runLog[i][1] = step

\* the steps Run makes before it starts a worker, in the order of the claim
StartupSteps == <<"ReadConfig", "upgradeCertificateDNSNames", "NewChannel",
                  "createJujudSymlinks">>

\* C17: Run reads the configuration, ensures the certificate's DNS names,
\* creates the upgrade-complete channel and creates the symlinks, in this
\* order, and only then starts api, statestarter and termination, in this
\* order; when one of the four steps fails Run returns an error at once and
\* has started no worker.
C17_StartupOrder ==
    /\ \A i \in 1..Len(runLog) :
         /\ i <= Len(StartupSteps) => runLog[i][1] = StartupSteps[i]
         /\ runLog[i][1] = "StartWorker" =>
              /\ i > Len(StartupSteps)
              /\ i <= Len(StartupSteps) + Len(TopLevelWorkers)
              /\ runLog[i][2] = TopLevelWorkers[i - Len(StartupSteps)]
              /\ \A j \in 1..Len(StartupSteps) : runLog[j] = <<StartupSteps[j], "ok">>
         /\ (i <= Len(StartupSteps) /\ runLog[i][2] = "failed") =>
              /\ Len(runLog) = i
              /\ runPc = "returned"
              /\ runErr.msg \notin {"nil", "none"}
    /\ runPc = "Wait" => Len(runLog) = Len(StartupSteps) + Len(TopLevelWorkers)

\* the three workers have been started and Run waits for the runner
C17_Witness ==
    /\ runPc = "Wait"
    /\ runLog[Len(runLog)] = <<"StartWorker", "termination">>
    /\ InLog(<<"createJujudSymlinks", "ok">>)

\* C18: after the root runner ended with ErrTerminateAgent the uninstall
\* steps are made exactly when the uninstall file existed when uninstallAgent
\* looked for it; when it did not, nothing is removed and Run returns nil.
C18_UninstallIffMarker ==
    /\ Len(UninstallLog(runLog)) > 0 =>
         (InLog(<<"Wait", "ErrTerminateAgent">>) /\ InLog(<<"Stat", "exists">>))
    /\ Attempted("Stat") => InLog(<<"Wait", "ErrTerminateAgent">>)
    /\ (runPc \in {"Stat", "OpenAPIState"} \/ Attempted("Stat")) =>
         (InLog(<<"Wait", "ErrTerminateAgent">>) <=> (runPc = "Stat" \/ Attempted("Stat")))
    /\ (runPc = "returned" /\ InLog(<<"Stat", "exists">>)) =>
         /\ Attempted("Remove service")
         /\ Attempted("Remove jujuRun") /\ Attempted("Remove jujuDumpLogs")
         /\ Attempted("RemoveAll DataDir")
         /\ InLog(<<"RunningInsideLXC", "inside">>) => Attempted("DetachLoopDevices")
    /\ InLog(<<"Stat", "absent">>) =>
         /\ Len(UninstallLog(runLog)) = 0
         /\ ~uninstallFile
         /\ runPc \in {"AgentDone", "returned"}
         /\ runErr = Err("nil")

\* the agent has uninstalled itself: the marker was there, every removal
\* succeeded, and the data directory with the marker is gone
C18_Witness ==
    /\ runPc = "returned"
    /\ InLog(<<"Stat", "exists">>)
    /\ InLog(<<"Remove service", "ok">>)
    /\ InLog(<<"DetachLoopDevices", "ok">>)
    /\ InLog(<<"RemoveAll DataDir", "ok">>)
    /\ ~uninstallFile
    /\ runErr = Err("nil")

\* C19: the host action is issued only after Wait returned
\* ErrRebootMachine (reboot) or ErrShutdownMachine (shutdown), the API
\* connection was opened and the reboot waiter obtained, in this order; when
\* the connection or the waiter fails no host action is issued and Run
\* returns that failure.
C19_RebootOrder ==
    /\ \A i \in 1..Len(runLog) :
         runLog[i][1] = "ExecuteReboot" =>
            /\ i > 3
            /\ runLog[i - 1] = <<"NewRebootWaiter", "ok">>
            /\ runLog[i - 2] = <<"OpenAPIState", "ok">>
            /\ runLog[i - 3][1] = "Wait"
            /\ runLog[i][2] = "ShouldReboot" => runLog[i - 3][2] = "ErrRebootMachine"
            /\ runLog[i][2] = "ShouldShutdown" => runLog[i - 3][2] = "ErrShutdownMachine"
            /\ runLog[i - 3][2] \in {"ErrRebootMachine", "ErrShutdownMachine"}
    /\ (runPc = "returned" /\ InLog(<<"OpenAPIState", "failed">>)) =>
         (~Attempted("ExecuteReboot") /\ runErr = Err("cannot open api"))
    /\ (runPc = "returned" /\ InLog(<<"NewRebootWaiter", "failed">>)) =>
         (~Attempted("ExecuteReboot") /\ runErr = Err("cannot create reboot waiter"))

\* the machine was shut down on ErrShutdownMachine and the agent exited
C19_Witness ==
    /\ runPc = "returned"
    /\ InLog(<<"Wait", "ErrShutdownMachine">>)
    /\ runLog[Len(runLog)] = <<"ExecuteReboot", "ShouldShutdown">>
    /\ runErr = Err("nil")

\* how often a step occurs in a log
Count(log, step) == Len(SelectSeq(log, LAMBDA e : e[1] = step))

\* the position of a step in the order of uninstallAgent
StepNo(step) == CHOOSE i \in 1..Len(UninstallSteps) : UninstallSteps[i] = step

\* C20: once the uninstall file is found every uninstall step is made
\* whatever the earlier ones returned (the loop devices are detached when the
\* agent is known to be inside a container), the data directory is removed
\* last, and uninstallAgent returns nil when no step failed and otherwise one
\* "uninstall failed" error that carries the error of every failed step.
C20_UninstallAggregation ==
    (runPc \in {"AgentDone", "returned"} /\ InLog(<<"Stat", "exists">>)) =>
        LET u == UninstallLog(runLog)
            failed == {i \in 1..Len(u) : u[i][2] = "failed"}
        IN /\ \A step \in {"Remove service", "Remove jujuRun", "Remove jujuDumpLogs",
                           "RunningInsideLXC", "RemoveService mongo", "RemoveAll DataDir"} :
                Count(u, step) = 1
           /\ Count(u, "DetachLoopDevices") =
                (IF InLog(<<"RunningInsideLXC", "inside">>) THEN 1 ELSE 0)
           /\ \A i, j \in 1..Len(u) : i < j => StepNo(u[i][1]) < StepNo(u[j][1])
           /\ u[Len(u)][1] = "RemoveAll DataDir"
           /\ failed = {} => runErr = Err("nil")
           /\ failed # {} =>
                /\ runErr.msg = "uninstall failed"
                /\ Len(runErr.errs) = Cardinality(failed)
                /\ \A i \in failed : \E k \in 1..Len(runErr.errs) : runErr.errs[k] = u[i]
                /\ \A k \in 1..Len(runErr.errs) : runErr.errs[k][2] = "failed"

\* an uninstall in which an early step and a late step failed, and every step
\* between them was still made
C20_Witness ==
    /\ runPc = "returned"
    /\ InLog(<<"Remove service", "failed">>)
    /\ InLog(<<"Remove jujuRun", "failed">>)
    /\ InLog(<<"DetachLoopDevices", "ok">>)
    /\ InLog(<<"RemoveService mongo", "ok">>)
    /\ InLog(<<"RemoveAll DataDir", "failed">>)
    /\ Len(runErr.errs) = 3

----------------------------------------------------------------------------
\* The state-starter.

\* no config change is in progress and every notification has been handled
StarterQuiet ==
    /\ starterPc = "loop"
    /\ ~confWriting
    /\ confSeen = confVersion
    /\ ~watchChFull

\* C21: every notification the state-starter handles makes it ask for the
\* start of "state" if the config it reads has serving info and for its stop
\* otherwise; so once the config changes have ceased and the last
\* notification is handled, "state" is desired running exactly if the config
\* has serving info; and the state-starter, stopped, returns nil.
C21_StateStarterConverges ==
    /\ starterLast.asked # "none" => (starterLast.asked = "start" <=> starterLast.info)
    /\ StarterQuiet => (rootWorkers["state"].desired = "running" <=> servingInfo)
    /\ starterPc = "done" => starterStop /\ starterErr = "nil"

\* the config gained serving info and lost it again, and the state-starter
\* has caught up with both changes
C21_Witness ==
    /\ StarterQuiet
    /\ confVersion = 3
    /\ ~servingInfo
    /\ starterLast.asked = "stop"
    /\ rootWorkers["state"].status = "Terminating"

----------------------------------------------------------------------------
\* The dependency engine.

\* manifold m is started in this step
Starts(m) == m \in DOMAIN eng /\ eng[m].status # "Running" /\ eng'[m].status = "Running"

Scenario ==
    /\ DOMAIN manifolds = GraphNames
    /\ manifolds["A"] = {} /\ manifolds["B"] = {"A"} /\ manifolds["C"] = {"A", "B"}
    /\ ~eng["B"].killed /\ ~eng["C"].killed

AllRunning == \A m \in DOMAIN manifolds : eng[m].status = "Running" /\ ~eng[m].behind

RECURSIVE Restarts(_, _)
Restarts(e, ms) ==
    IF ms = {} THEN 0
    ELSE LET m == CHOOSE x \in ms : TRUE
         IN  (IF e[m].starts > 0 THEN e[m].starts - 1 ELSE 0) + Restarts(e, ms \ {m})

WouldCycle(g, name, inputs) == name \in Reach(g, inputs, Cardinality(DOMAIN g))

\* C24: Install of a name that is already present, or of a manifold that
\* would create a dependency cycle, is rejected and leaves the graph as it
\* is; the installed graph is acyclic in every reachable state.
C24_InstallKeepsAcyclic ==
    /\ Acyclic(manifolds)
    /\ \A name \in GraphNames : \A inputs \in SUBSET GraphNames :
          name \in DOMAIN manifolds \/ WouldCycle(manifolds, name, inputs)
             => InstallResult(manifolds, name, inputs) = manifolds

\* B and C are installed, B with the missing A as input and C with B: an
\* Install of A with input C would close the cycle A, C, B
C24_Witness ==
    /\ DOMAIN manifolds = {"B", "C"}
    /\ manifolds["B"] = {"A"}
    /\ manifolds["C"] = {"B"}
    /\ WouldCycle(manifolds, "A", {"C"})
    /\ InstallResult(manifolds, "A", {"C"}) = manifolds

----------------------------------------------------------------------------
\* The manifolds of a model.

\* flag manifold f is Running and publishes true
FlagTrue(f) == eng[f].status = "Running" /\ eng[f].value

Unwrapped == {"agent", "clock", "api-caller"}

----------------------------------------------------------------------------
\* The runner.

\* every child has been asked to stop: none is Running, none desired running
AllAskedToStop(ws) ==
    \A id \in DOMAIN ws : ws[id].status # "Running" /\ ws[id].desired = "stopped"

\* C26: when a child exits with a fatal error the runner starts to stop with
\* that error as its own, every other child is asked to stop in the same
\* step, the error is never replaced by a less important one, and the
\* runner eventually terminates, Wait returning the fatal error.
C26_FatalPropagates ==
    /\ [][/\ ~runnerStopping /\ runnerStopping' /\ mgrPc' = mgrPc
                => runnerErr' = "fatal" /\ AllAskedToStop(workers')
          /\ runnerErr = "fatal" => runnerErr' = "fatal"]_vars
    /\ [](runnerErr = "fatal" => runnerStopping /\ AllAskedToStop(workers))
    /\ (runnerErr = "fatal") ~> (runnerDead /\ ~MoreImportant("fatal", runnerErr))

\* a child has exited with a fatal error while another child was running:
\* that one is terminating
C26_Witness ==
    /\ runnerErr = "fatal"
    /\ ~runnerDead
    /\ \E id \in WorkerIds : workers[id].status = "Terminating"

\* C27: the runner's Wait returns only once every child is gone; a Kill of
\* the runner asks every child to stop; and no child is (re)started once the
\* runner is stopping or while its entry is desired stopped.
C27_ShutdownTransitive ==
    /\ [](runnerDead => \A id \in WorkerIds : workers[id].status = "Absent")
    /\ [][/\ ~runnerStopping /\ runnerStopping' => AllAskedToStop(workers')
          /\ \A id \in WorkerIds :
                workers[id].status # "Starting" /\ workers'[id].status = "Starting"
                   => ~runnerStopping /\ workers'[id].desired = "running"]_vars

\* the manager has killed its runner (no fatal error) and the runner has
\* terminated after a child that was terminating
C27_Witness ==
    /\ runnerDead
    /\ runnerErr = "nil"
    /\ mgrPc = "dead"
    /\ \E u \in Models : seen[u].stage > 0

\* C28: a second Stop of a name changes nothing after the first; Start of a
\* name that is running, or whose handle is still live, starts no second
\* handle; and no Stop or Kill removes an entry whose handle has not
\* terminated.
C28_StopStartIdempotent ==
    /\ RunnerStop(RunnerStop(rootWorkers, "state"), "state") = RunnerStop(rootWorkers, "state")
    /\ rootWorkers["state"].desired = "running" /\ rootWorkers["state"].status \in {"Starting", "Running"}
          => RunnerStart(rootWorkers, "state") = rootWorkers
    /\ rootWorkers["state"].status \in {"Running", "Terminating"}
          => /\ RunnerStart(rootWorkers, "state")["state"].status = rootWorkers["state"].status
             /\ RunnerStop(rootWorkers, "state")["state"].status = "Terminating"
             /\ KillAll(rootWorkers)["state"].status = "Terminating"

\* the state-starter has asked for the stop of "state" while its handle was
\* still terminating from an earlier stop, after another change of the config
C28_Witness ==
    /\ rootWorkers["state"] = [status |-> "Terminating", desired |-> "stopped"]
    /\ starterLast.asked = "stop"
    /\ confVersion = MaxChanges
    /\ confSeen = confVersion
    /\ ~watchChFull

----------------------------------------------------------------------------
\* The singular gate.

C30_GateLiveness ==
    /\ [][\A p \in Procs :
             gatePc[p] = "holding" /\ gatePc'[p] = "exited" => LeaseFree(lease')]_vars
    /\ (/\ LeaseFree(lease)
        /\ \E p \in Procs : gatePc[p] = "exited"
        /\ \E q \in Procs : gatePc[q] = "waiting")
          ~> (\/ \E q \in Procs : held[q]
              \/ ~\E q \in Procs : gatePc[q] = "waiting")

\* process 1 has exited and process 2 has the key after it
C30_Witness ==
    /\ gatePc[1] = "exited"
    /\ held[2]
    /\ lease = [holder |-> 2, ttl |-> LeaseD]

----------------------------------------------------------------------------
\* The restore operations and the logins that run beside them.

\* the step is a call of a restore operation that shows in the state
RestoreCall ==
    \/ restoreErr' # restoreErr
    \/ <<restoreMode, restoring>>' # <<restoreMode, restoring>>

RestoreUnchanged == <<restoreMode, restoring>>' = <<restoreMode, restoring>>

\* C31: PrepareRestore fails, changing nothing, when restoreMode is already
\* set, and otherwise sets it; BeginRestore fails, changing nothing, when
\* restoreMode is unset or restoring is already set, and otherwise sets
\* restoring; EndRestore succeeds and unsets both.
C31_RestoreOpsFailClean ==
    [][RestoreCall =>
          CASE restoreErr'.op = "PrepareRestore" ->
                  IF restoreMode
                  THEN restoreErr'.err # "nil" /\ RestoreUnchanged
                  ELSE restoreErr'.err = "nil" /\ restoreMode' /\ restoring' = restoring
            [] restoreErr'.op = "BeginRestore" ->
                  IF ~restoreMode \/ restoring
                  THEN restoreErr'.err # "nil" /\ RestoreUnchanged
                  ELSE restoreErr'.err = "nil" /\ restoreMode' /\ restoring'
            [] restoreErr'.op = "EndRestore" ->
                  restoreErr'.err = "nil" /\ ~restoreMode' /\ ~restoring'
            [] OTHER -> FALSE]_vars

\* BeginRestore has been refused while a restore was running
C31_Witness ==
    /\ restoreErr = [op |-> "BeginRestore", err |-> "already restoring"]
    /\ restoreMode
    /\ restoring

\* C32: whatever the order of PrepareRestore, BeginRestore, EndRestore and
\* the restore statuses, after each of them restoring implies restoreMode,
\* the agent is not both preparing and running a restore, and exactly one
\* of idle, preparing and running holds.
C32_RestoreFlagInvariant ==
    LET idle      == ~restoreMode
        preparing == IsRestorePreparing(restoreMode, restoring)
        running   == IsRestoreRunning(restoreMode, restoring)
    IN  /\ restoring => restoreMode
        /\ ~(preparing /\ running)
        /\ Cardinality({x \in {<<"idle", idle>>, <<"preparing", preparing>>,
                                <<"running", running>>} : x[2]}) = 1

\* a RestoreInProgress status has arrived out of order, with the agent idle
C32_Witness ==
    /\ restoreErr = [op |-> "BeginRestore", err |-> "not in restore mode"]
    /\ ~restoreMode
    /\ ~restoring
    /\ restoreHist # <<>>

\* C33: a limitLogins call during which restoreMode is set at every step never
\* admits a login by a machine other than the local one, also when
\* BeginRestore runs on the restore-watcher task while the call is under way.
C33_NoAdmissionWhileRestoring ==
    LET authTag == ParseTag(loginCall.req)
    IN  (/\ loginCall.pc = "done"
         /\ loginCall.modeAll
         /\ ~authTag.err /\ authTag.kind = "machine" /\ authTag # Tag)
        => admit(loginCall.err) # "allow"

\* C34: limitLogins returns nil for a request whose auth tag is the agent's own
\* machine tag, in each restore state (idle, preparing, running) and for each
\* state of the two upgrade gates: both for the calls the agent has answered
\* and for every combination of the flags and gates.
C34_LocalMachineAdmitted ==
    /\ (Called /\ login.req = LocalReq) => login.err = "nil"
    /\ \A mode \in BOOLEAN, running \in BOOLEAN, upg \in {"open", "closed"},
          chk \in {"open", "closed"} :
          (running => mode) =>
              limitLogins(mode, running, upg, chk, LocalReq) = "nil"

\* the local machine logged in while a restore was running and the upgrade
\* steps had not completed
C34_Witness ==
    /\ login.req = LocalReq
    /\ login.mode /\ login.running
    /\ login.upg = "open"
    /\ login.err = "nil"

\* C35: once start() has returned a worker, the wrapper does not return while
\* that worker is still running; asked to stop while the worker runs, it kills
\* the worker and returns only after the worker has finished; whenever it
\* returns after a successful start its error is the error the worker finished
\* with, and when start() fails its error is the start error.
C35_WrapperOwnsInner ==
    /\ [](waiterPc = "done" =>
            /\ innerWorker.st \notin {"running", "killed"}
            /\ innerWorker.st = "exited" => waiterErr = innerWorker.err
            /\ (innerStart.calls > 0 /\ innerWorker.st = "none") =>
                   waiterErr = "start failed")
    /\ (waiterStop.closed /\ innerWorker.st = "running")
          ~> (innerWorker.st \in {"killed", "exited"})

\* the wrapper was asked to stop, has killed the worker it started and is
\* waiting for it to finish
C35_Witness ==
    /\ waiterStop.closed
    /\ waiterPc = "killed"
    /\ innerWorker.st = "killed"

\* C36: the api worker returns ErrTerminateAgent only for a machine it found
\* dead and only with the uninstall file written; for a dead machine it
\* returns nothing but ErrTerminateAgent or, when the file could not be
\* written, the write failure; and whenever it returns an error after the
\* connection was opened the connection has been closed.
C36_DeadMachineUninstalls ==
    /\ apiWorker.err = "ErrTerminateAgent" =>
           apiWorker.life = "dead" /\ apiWorker.marker
    /\ apiWorker.err = "writing uninstall agent file" =>
           apiWorker.life = "dead" /\ ~apiWorker.marker
    /\ (apiWorker.pc = "done" /\ apiWorker.life = "dead") =>
           apiWorker.err \in {"ErrTerminateAgent", "writing uninstall agent file"}
    /\ (apiWorker.pc = "done" /\ apiWorker.err # "nil") =>
           /\ apiWorker.conn # "open"
           /\ apiWorker.err # "cannot open api" => apiWorker.conn = "closed"

\* the machine was found dead and the uninstall file could not be written
C36_Witness ==
    /\ apiWorker.pc = "done"
    /\ apiWorker.life = "dead"
    /\ apiWorker.err = "writing uninstall agent file"
    /\ apiWorker.conn = "closed"

\* C37: the manager's Wait does not return while its runner has not
\* terminated: the loop's exit kills the runner and the manager terminates
\* only after the runner has; and once the runner has terminated, by itself
\* or not, the manager is killed and terminates too.
C37_CoupledLifetimes ==
    /\ [](mgrPc = "dead" => runnerDead /\ runnerStopping)
    /\ [](mgrPc = "waitRunner" => runnerStopping /\ AllAskedToStop(workers))
    /\ [][mgrPc # "dead" /\ mgrPc' = "dead" => mgrPc = "waitRunner" /\ runnerDead]_vars
    /\ runnerDead ~> mgrDying
    /\ runnerDead ~> (mgrPc = "dead")

\* the runner has terminated on a child's fatal error while the manager was
\* waiting in its loop, not yet killed
C37_Witness ==
    /\ runnerDead
    /\ runnerErr = "fatal"
    /\ mgrPc = "loop"
    /\ ~mgrDying

\* the manager's loop has returned an error of a lookup or of a request to
\* the runner
BatchFailed == mgrLoopErr \notin {"nil", "ErrDying"}

\* a call that fails ends the batch and makes the loop return its error; a
\* lookup that fails, other than with not-found, makes the call fail; a call
\* whose lookup reports not-found fails only when its stop request fails; and
\* the manager does not terminate before it has killed its runner
BatchErrorHandling ==
    /\ [][\A u \in Models :
            /\ Dispatched(u, "Error") => seen'[u].err = "lookup"
            /\ Dispatched(u, "NotFound") /\ seen'[u].err # "nil" =>
                   StopWorkerErr /\ seen'[u].err = "ErrDead"
            /\ (mgrPc = "handling" /\ mgrBatch # <<>> /\ Head(mgrBatch) = u
                   /\ mgrBatch' # mgrBatch /\ seen'[u].err # "nil") =>
                   /\ mgrBatch' = <<>>
                   /\ mgrPc' = "exiting"
                   /\ mgrLoopErr' = seen'[u].err]_vars
    /\ [](mgrPc = "dead" => runnerStopping /\ runnerDead)

\* C38 as stated: a lookup error other than not-found, or an error of a start
\* or stop request, ends the batch, the manager kills its runner, and the
\* manager's Wait returns that error; not-found is not an error.
C38_WaitReturnsBatchError ==
    /\ BatchErrorHandling
    /\ [](mgrPc = "dead" /\ BatchFailed => mgrReason = mgrLoopErr)

\* C38 amended: as stated, except that the manager's Wait returns the
\* runner's terminal error when that is not nil, and the batch's error
\* otherwise.
C38_WaitReturnsRunnerOrBatchError ==
    /\ BatchErrorHandling
    /\ [](mgrPc = "dead" /\ BatchFailed =>
            mgrReason = IF runnerErr # "nil" THEN runnerErr ELSE mgrLoopErr)

\* a lookup failed, the runner was killed and terminated without an error of
\* its own, and the manager's Wait returns the lookup's error
C38_Witness ==
    /\ mgrPc = "dead"
    /\ mgrLoopErr = "lookup"
    /\ runnerErr = "nil"
    /\ mgrReason = "lookup"

\* caller c is between taking and releasing a.mongoInitMutex
InEnsure(c) == mongoCall[c].pc \in {"mongoInitialized", "IsServiceInstalled", "EnsureMongoServer"}

\* this step is the return of a call of ensureMongoServer by c
Returns(c) == mongoCall[c].pc # "idle" /\ mongoCall'[c].pc = "idle"

\* C39: no two calls of ensureMongoServer are inside the mutex at once;
\* mongoInitialized is set only by a call that returns nil and is never unset;
\* a call made once it is set returns nil without running an initialisation
\* step; and a call that fails leaves it unset, so that the next call runs the
\* initialisation again.
C39_MongoInitOnce ==
    /\ [](\A c, d \in MongoCallers : InEnsure(c) /\ InEnsure(d) => c = d)
    /\ [](\A c \in MongoCallers : InEnsure(c) => mongoInitMutex = c)
    /\ [][/\ mongoInitialized => mongoInitialized'
          /\ ~mongoInitialized /\ mongoInitialized' =>
                \E c \in MongoCallers : Returns(c) /\ mongoCall'[c].ret = "nil"
          /\ \A c \in MongoCallers :
                /\ Returns(c) /\ mongoCall'[c].ret # "nil" =>
                       ~mongoInitialized /\ ~mongoInitialized'
                /\ Returns(c) /\ mongoCall[c].wasInit =>
                       mongoCall'[c].ret = "nil" /\ ~mongoCall'[c].steps
                /\ (mongoCall[c].pc = "mongoInitialized" /\ ~mongoInitialized
                       /\ mongoCall'[c] # mongoCall[c]) =>
                       mongoCall'[c].pc = "IsServiceInstalled"]_vars

\* one caller's initialisation has failed, the flag is still unset, and the
\* other caller, which waited for the mutex, is now running the steps
C39_Witness ==
    \E c, d \in MongoCallers :
        /\ mongoCall[c].pc = "idle"
        /\ mongoCall[c].ret = "cannot ensure mongo server"
        /\ ~mongoInitialized
        /\ mongoCall[d].pc = "EnsureMongoServer"
        /\ mongoInitMutex = d

\* C40: once the state-starter has been asked to stop and has returned, its
\* forwarding goroutine terminates.  The goroutine terminates only by
\* returning from its loop when confWatch.Next() reports false; while it is
\* blocked in the send on watchCh after stateStarter has returned, nothing
\* receives from watchCh any more, so it can never terminate.  The claim
\* therefore requires that the state-starter never returns with the
\* goroutine's send pending.
C40_NoForwarderLeftSending ==
    ~(starterStop /\ starterPc = "done" /\ watchChFull)

====
